---------------------------- MODULE Spec2Model ----------------------------
(* A model of DeepTrace's case graph engine                                *)
(* (src/src/deeptrace/commands/network.py): the projection of the case     *)
(* database into a NetworkX graph by _build_graph and the network commands *)
(* summary, connections, clusters, bridges, paths, visualize and inspect.  *)
(*                                                                         *)
(* The graph G mirrors networkx.Graph: `order` is the insertion order of   *)
(* the node dictionary, `attr` the node attribute dictionaries, `adj` the  *)
(* adjacency dictionaries (neighbours in insertion order) and `eattr` the  *)
(* edge attribute dictionaries, keyed by the unordered pair {u, v}.        *)
EXTENDS Integers, Sequences, FiniteSets, TLC

VARIABLES db, pc, G, args, out

vars == <<db, pc, G, args, out>>

(* ------------------------------ bounds -------------------------------- *)

\* Total number of rows in the case database.
MaxRows == 3
\* Number of rows of the entities table (and the range of entity references).
MaxEntities == 2
\* Number of rows of every other table (and the range of references to them).
MaxOther == 1

\* SQL NULL in a nullable reference column (source_id, canonical_id).
NULL == 0

(* --------------------------- small helpers ---------------------------- *)

Range(s) == {s[i] : i \in 1..Len(s)}

Contains(s, x) == \E i \in 1..Len(s) : s[i] = x

\* The empty dictionary.
EmptyDict == [x \in {} |-> x]

\* dict.get(key, default)
Get(d, key, default) == IF key \in DOMAIN d THEN d[key] ELSE default

\* An update in which the keys already present keep their values.
UpdateKeepsOld(d, other) ==
    [k \in (DOMAIN d) \cup (DOMAIN other) |->
        IF k \in DOMAIN d THEN d[k] ELSE other[k]]

\* dict.update(other): the keys of `other` overwrite, the other keys stay.
Update(d, other) ==
    [k \in (DOMAIN d) \cup (DOMAIN other) |->
        IF k \in DOMAIN other THEN other[k] ELSE d[k]]

RECURSIVE IdStr(_)
\* str(id) inside an f-string, as a sequence of characters.
IdStr(i) ==
    LET digit == <<"0", "1", "2", "3", "4", "5", "6", "7", "8", "9">>[(i % 10) + 1]
    IN  IF i < 10 THEN <<digit>> ELSE Append(IdStr(i \div 10), digit)

\* f"entity:{row['id']}": the prefix and the id identify the key.
Key(prefix, id) == <<prefix, id>>

NodeKinds == {"entity", "evidence", "event", "hypothesis", "suspect_pool", "source"}

KeyPrefixes == {"entity", "evidence", "event", "hypothesis", "suspect", "source"}

(* ------------------------ the record source --------------------------- *)

EmptyDb ==
    [entities |-> <<>>, evidence_items |-> <<>>, events |-> <<>>,
     hypotheses |-> <<>>, suspect_pools |-> <<>>, sources |-> <<>>,
     relationships |-> <<>>, hypothesis_evidence_scores |-> <<>>]

RowCount(d) ==
    Len(d.entities) + Len(d.evidence_items) + Len(d.events) + Len(d.hypotheses)
    + Len(d.suspect_pools) + Len(d.sources) + Len(d.relationships)
    + Len(d.hypothesis_evidence_scores)

SourceRefs == 0..MaxOther
EntityRefs == 1..MaxEntities


(* ----------------------- networkx.Graph operations --------------------- *)

\* nx.Graph()
EmptyGraph == [order |-> <<>>, attr |-> EmptyDict, adj |-> EmptyDict, eattr |-> EmptyDict]

\* G.has_node(k), k in G
HasNode(g, k) == k \in DOMAIN g.attr

\* G.add_node(k, **a): a new key is appended to the node dictionary; an
\* existing key keeps its place and its attribute dictionary is updated.
AddNode(g, k, a) ==
    IF HasNode(g, k)
    THEN [g EXCEPT !.attr[k] = Update(@, a)]
    ELSE [order |-> Append(g.order, k),
          attr  |-> (k :> a) @@ g.attr,
          adj   |-> (k :> <<>>) @@ g.adj,
          eattr |-> g.eattr]

\* G.add_edge(u, v, **a): an endpoint that is not yet a node is created with
\* an empty attribute dictionary (u first, then v); the attribute dictionary
\* of an existing edge {u, v} is updated, not replaced.
AddEdge(g, u, v, a) ==
    LET g1   == IF HasNode(g, u) THEN g ELSE AddNode(g, u, EmptyDict)
        g2   == IF HasNode(g1, v) THEN g1 ELSE AddNode(g1, v, EmptyDict)
        e    == {u, v}
        old  == IF e \in DOMAIN g2.eattr THEN g2.eattr[e] ELSE EmptyDict
        adj1 == [g2.adj EXCEPT ![u] = IF Contains(@, v) THEN @ ELSE Append(@, v)]
        adj2 == [adj1 EXCEPT ![v] = IF Contains(@, u) THEN @ ELSE Append(@, u)]
    IN  [g2 EXCEPT !.adj = adj2, !.eattr = (e :> Update(old, a)) @@ g2.eattr]

\* G.number_of_nodes()
NumberOfNodes(g) == Len(g.order)

\* G.neighbors(u), G[u]: the neighbours in insertion order
Neighbors(g, u) == g.adj[u]

\* G.degree(u): a self-loop counts twice
Degree(g, u) == Len(g.adj[u]) + (IF Contains(g.adj[u], u) THEN 1 ELSE 0)

\* G.number_of_edges()
NumberOfEdges(g) == Cardinality(DOMAIN g.eattr)

(* ----------------------------- _truncate ------------------------------- *)

\* A truncation that already cuts a text of exactly `length` characters.
TruncateAtBudget(text, length) ==
    IF Len(text) >= length
    THEN SubSeq(text, 1, length) \o <<".", ".", ".">>
    ELSE text

\* (text[:length] + "...") if len(text) > length else text
Truncate(text, length) ==
    IF Len(text) > length
    THEN SubSeq(text, 1, length) \o <<".", ".", ".">>
    ELSE text

\* the default of _truncate's length parameter
DefaultLength == 60

(* ----------------------------- _build_graph ---------------------------- *)

\* The twelve reads of _build_graph, in program order: six node tables, then
\* six link queries.
BuildPhases ==
    <<"entities", "evidence_items", "events", "hypotheses", "suspect_pools",
      "sources", "relationships", "alias", "evidence_source", "event_source",
      "entity_source", "ach_score">>

NodePhases == 1..6

\* db.fetchall(...) of each phase
ReadRows(d, phase) ==
    CASE phase = "entities"        -> d.entities
      [] phase = "evidence_items"  -> d.evidence_items
      [] phase = "events"          -> d.events
      [] phase = "hypotheses"      -> d.hypotheses
      [] phase = "suspect_pools"   -> d.suspect_pools
      [] phase = "sources"         -> d.sources
      [] phase = "relationships"   -> d.relationships
      [] phase = "alias"           -> SelectSeq(d.entities, LAMBDA r : r.canonical_id # NULL)
      [] phase = "evidence_source" -> SelectSeq(d.evidence_items, LAMBDA r : r.source_id # NULL)
      [] phase = "event_source"    -> SelectSeq(d.events, LAMBDA r : r.source_id # NULL)
      [] phase = "entity_source"   -> SelectSeq(d.entities, LAMBDA r : r.source_id # NULL)
      [] phase = "ach_score"       -> d.hypothesis_evidence_scores

\* f"Source {row['id']} ({row['source_type']})"
SourceLabel(row) ==
    <<"S", "o", "u", "r", "c", "e", " ">> \o IdStr(row.id) \o <<" ", "(">>
        \o row.source_type \o <<")">>

\* A guard that drops every edge.
AddEdgeNever(g, a, b, attrs) == g

\* An edge is added only between two nodes the graph already has.
AddEdgeIfBoth(g, a, b, attrs) ==
    IF HasNode(g, a) /\ HasNode(g, b) THEN AddEdge(g, a, b, attrs) ELSE g

\* The evidence -> source loop adds its edge without looking at the nodes.
AddEvidenceSourceEdge(g, row) ==
    AddEdge(g, Key("evidence", row.id), Key("source", row.source_id),
            [edge_type |-> "sourced_from"])

\* The body of each loop of _build_graph, applied to one row.
ApplyRow(phase, g, row) ==
    CASE phase = "entities" ->
            AddNode(g, Key("entity", row.id),
                    [label |-> row.name, node_type |-> "entity", db_id |-> row.id])
      [] phase = "evidence_items" ->
            AddNode(g, Key("evidence", row.id),
                    [label |-> row.name, node_type |-> "evidence", db_id |-> row.id])
      [] phase = "events" ->
            AddNode(g, Key("event", row.id),
                    [label |-> Truncate(row.description, DefaultLength),
                     node_type |-> "event", db_id |-> row.id])
      [] phase = "hypotheses" ->
            AddNode(g, Key("hypothesis", row.id),
                    [label |-> Truncate(row.description, DefaultLength),
                     node_type |-> "hypothesis", db_id |-> row.id])
      [] phase = "suspect_pools" ->
            AddNode(g, Key("suspect", row.id),
                    [label |-> row.category, node_type |-> "suspect_pool",
                     db_id |-> row.id])
      [] phase = "sources" ->
            AddNode(g, Key("source", row.id),
                    [label |-> SourceLabel(row), node_type |-> "source",
                     db_id |-> row.id])
      [] phase = "relationships" ->
            AddEdgeIfBoth(g, Key("entity", row.entity_a_id), Key("entity", row.entity_b_id),
                    [edge_type |-> "relationship",
                     relationship_type |-> row.relationship_type,
                     strength |-> row.strength,
                     confirmed |-> row.confirmed])
      [] phase = "alias" ->
            AddEdgeIfBoth(g, Key("entity", row.id), Key("entity", row.canonical_id),
                    [edge_type |-> "alias"])
      [] phase = "evidence_source" ->
            AddEvidenceSourceEdge(g, row)
      [] phase = "event_source" ->
            AddEdgeIfBoth(g, Key("event", row.id), Key("source", row.source_id),
                    [edge_type |-> "sourced_from"])
      [] phase = "entity_source" ->
            AddEdgeIfBoth(g, Key("entity", row.id), Key("source", row.source_id),
                    [edge_type |-> "sourced_from"])
      [] phase = "ach_score" ->
            AddEdgeIfBoth(g, Key("hypothesis", row.hypothesis_id),
                    Key("evidence", row.evidence_id),
                    [edge_type |-> "ach_score", consistency |-> row.consistency,
                     diagnostic_weight |-> row.diagnostic_weight])

RECURSIVE ApplyRows(_, _, _, _)
\* for row in rows[i..]: the loop body, row by row
ApplyRows(phase, g, rows, i) ==
    IF i > Len(rows) THEN g
    ELSE ApplyRows(phase, ApplyRow(phase, g, rows[i]), rows, i + 1)

\* One read of the record source and the loop over its rows.
RunPhase(d, g, p) == ApplyRows(BuildPhases[p], g, ReadRows(d, BuildPhases[p]), 1)

RECURSIVE RunPhases(_, _, _)
RunPhases(d, g, p) ==
    IF p > Len(BuildPhases) THEN g ELSE RunPhases(d, RunPhase(d, g, p), p + 1)

\* _build_graph(db)
BuildGraph(d) == RunPhases(d, EmptyGraph, 1)

(* ------------------------- networkx algorithms ------------------------- *)

Min(a, b) == IF a <= b THEN a ELSE b

Max(a, b) == IF a >= b THEN a ELSE b

RECURSIVE InsertDescBeforeTies(_, _)
\* An insertion that places a pair in front of the pairs of equal key.
InsertDescBeforeTies(s, p) ==
    IF s = <<>> THEN <<p>>
    ELSE IF Head(s)[1] > p[1] THEN <<Head(s)>> \o InsertDescBeforeTies(Tail(s), p)
    ELSE <<p>> \o s

RECURSIVE InsertDesc(_, _)
\* Places the pair p = <<key, item>> behind the last pair whose key is >= its own.
InsertDesc(s, p) ==
    IF s = <<>> THEN <<p>>
    ELSE IF Head(s)[1] >= p[1] THEN <<Head(s)>> \o InsertDesc(Tail(s), p)
    ELSE <<p>> \o s

RECURSIVE SortDescFrom(_, _, _)
SortDescFrom(pairs, i, acc) ==
    IF i > Len(pairs) THEN acc ELSE SortDescFrom(pairs, i + 1, InsertDesc(acc, pairs[i]))

\* sorted(items, key=..., reverse=True) on the pairs <<key(item), item>>: the
\* sort is stable, so items of equal key keep their order.
SortedDesc(pairs) ==
    LET sorted == SortDescFrom(pairs, 1, <<>>)
    IN  [i \in 1..Len(sorted) |-> sorted[i][2]]

RECURSIVE BfsGrow(_, _, _)
BfsGrow(g, seen, frontier) ==
    IF frontier = {} THEN seen
    ELSE LET next == {w \in UNION {Range(g.adj[v]) : v \in frontier} : w \notin seen}
         IN  BfsGrow(g, seen \cup next, next)

\* _plain_bfs(G, source): the set of nodes reachable from source, level by level
PlainBfs(g, source) == BfsGrow(g, {source}, {source})

RECURSIVE ComponentsFrom(_, _, _)
ComponentsFrom(g, i, seen) ==
    IF i > Len(g.order) THEN <<>>
    ELSE IF g.order[i] \in seen THEN ComponentsFrom(g, i + 1, seen)
    ELSE LET c == PlainBfs(g, g.order[i])
         IN  <<c>> \o ComponentsFrom(g, i + 1, seen \cup c)

\* nx.connected_components(G): one BFS from every node not yet seen, in node order
ConnectedComponents(g) == ComponentsFrom(g, 1, {})

\* nx.number_connected_components(G)
NumberConnectedComponents(g) == Len(ConnectedComponents(g))

\* nx.isolates(G): the nodes of degree 0, in node order
Isolates(g) == SelectSeq(g.order, LAMBDA n : Degree(g, n) = 0)

RECURSIVE EdgesFrom(_, _, _, _)
EdgesFrom(g, i, j, seen) ==
    IF i > Len(g.order) THEN <<>>
    ELSE LET n == g.order[i]
         IN  IF j > Len(g.adj[n]) THEN EdgesFrom(g, i + 1, 1, seen \cup {n})
             ELSE IF g.adj[n][j] \in seen THEN EdgesFrom(g, i, j + 1, seen)
             ELSE <<<<n, g.adj[n][j]>>>> \o EdgesFrom(g, i, j + 1, seen)

\* G.edges(): every edge once, from the endpoint that comes first in node order
Edges(g) == EdgesFrom(g, 1, 1, {})

(* nx.shortest_path(G, source, target) with no weight is                   *)
(* bidirectional_shortest_path: a breadth-first search from both ends that *)
(* always expands the smaller fringe by one whole level, and stops at the  *)
(* first node w seen from both sides.  pred and succ map a node to <<>>    *)
(* (None) or to <<its predecessor>>.                                        *)

RECURSIVE ExpandLevel(_, _, _, _, _)
ExpandLevel(g, st, level, i, j) ==
    IF i > Len(level) THEN st
    ELSE LET v == level[i]
         IN  IF j > Len(g.adj[v]) THEN ExpandLevel(g, st, level, i + 1, 1)
             ELSE LET w == g.adj[v][j]
                      st1 == IF st.forward
                             THEN IF w \notin DOMAIN st.pred
                                  THEN [st EXCEPT !.ffringe = Append(@, w),
                                                  !.pred = (w :> <<v>>) @@ @]
                                  ELSE st
                             ELSE IF w \notin DOMAIN st.succ
                                  THEN [st EXCEPT !.rfringe = Append(@, w),
                                                  !.succ = (w :> <<v>>) @@ @]
                                  ELSE st
                      met == IF st.forward THEN w \in DOMAIN st1.succ
                             ELSE w \in DOMAIN st1.pred
                  IN  IF met THEN [st1 EXCEPT !.found = <<w>>]
                      ELSE ExpandLevel(g, st1, level, i, j + 1)

RECURSIVE BidirectionalLoop(_, _)
BidirectionalLoop(g, st) ==
    IF st.found # <<>> \/ st.ffringe = <<>> \/ st.rfringe = <<>> THEN st
    ELSE IF Len(st.ffringe) <= Len(st.rfringe)
         THEN BidirectionalLoop(g,
                ExpandLevel(g, [st EXCEPT !.forward = TRUE, !.ffringe = <<>>],
                            st.ffringe, 1, 1))
         ELSE BidirectionalLoop(g,
                ExpandLevel(g, [st EXCEPT !.forward = FALSE, !.rfringe = <<>>],
                            st.rfringe, 1, 1))

\* _bidirectional_pred_succ(G, source, target)
BidirectionalPredSucc(g, source, target) ==
    IF target = source
    THEN [pred |-> (target :> <<>>), succ |-> (source :> <<>>), found |-> <<source>>,
          ffringe |-> <<>>, rfringe |-> <<>>, forward |-> TRUE]
    ELSE BidirectionalLoop(g,
            [pred |-> (source :> <<>>), succ |-> (target :> <<>>), found |-> <<>>,
             ffringe |-> <<source>>, rfringe |-> <<target>>, forward |-> TRUE])

RECURSIVE WalkBack(_, _)
\* while w is not None: path.append(w); w = links[w]
WalkBack(links, w) ==
    IF w = <<>> THEN <<>> ELSE <<w[1]>> \o WalkBack(links, links[w[1]])

Reverse(s) == [i \in 1..Len(s) |-> s[Len(s) + 1 - i]]

\* A search that gives up after the first level: it finds a node itself and
\* its direct neighbours only.
ShortestPathOneLevel(g, source, target) ==
    IF source = target THEN << <<source>> >>
    ELSE IF Contains(Neighbors(g, source), target) THEN << <<source, target>> >>
    ELSE <<>>

\* What nx.shortest_path returns: <<>> stands for raising NetworkXNoPath,
\* <<path>> for the path found.
ShortestPath(g, source, target) ==
    LET r == BidirectionalPredSucc(g, source, target)
    IN  IF r.found = <<>> THEN <<>>
        ELSE LET head == Reverse(WalkBack(r.pred, r.found))
             IN  <<head \o WalkBack(r.succ, r.succ[head[Len(head)]])>>

(* nx.articulation_points(G) is _biconnected_dfs(G, components=False): an  *)
(* iterative depth-first search from every node not yet visited, keeping   *)
(* discovery indices and low-link values.  A stack entry is                *)
(* [gp, parent, idx]: the grandparent, the node being expanded and the     *)
(* position of its neighbour iterator.                                     *)

RECURSIVE BiconnectedLoop(_, _)
BiconnectedLoop(g, st) ==
    IF st.stack = <<>> THEN st
    ELSE LET n      == Len(st.stack)
             top    == st.stack[n]
             gp     == top.gp
             parent == top.parent
         IN  IF top.idx <= Len(g.adj[parent])
             THEN \* child = next(children)
                  LET child == g.adj[parent][top.idx]
                      st1   == [st EXCEPT !.stack[n].idx = @ + 1]
                  IN  IF gp = child THEN BiconnectedLoop(g, st1)
                      ELSE IF child \in st1.visited
                      THEN IF st1.discovery[child] <= st1.discovery[parent]
                           THEN BiconnectedLoop(g,
                                  [st1 EXCEPT !.low[parent] =
                                                 Min(@, st1.discovery[child])])
                           ELSE BiconnectedLoop(g, st1)
                      ELSE LET d == Cardinality(DOMAIN st1.discovery)
                           IN  BiconnectedLoop(g,
                                  [st1 EXCEPT !.low = (child :> d) @@ @,
                                              !.discovery = (child :> d) @@ @,
                                              !.visited = @ \cup {child},
                                              !.stack = Append(@, [gp |-> parent,
                                                                    parent |-> child,
                                                                    idx |-> 1])])
             ELSE \* StopIteration
                  LET rest == SubSeq(st.stack, 1, n - 1)
                      st1  == [st EXCEPT !.stack = rest]
                  IN  IF Len(rest) > 1
                      THEN LET st2 == IF st1.low[parent] >= st1.discovery[gp]
                                      THEN [st1 EXCEPT !.yielded = Append(@, gp)]
                                      ELSE st1
                           IN  BiconnectedLoop(g,
                                  [st2 EXCEPT !.low[gp] = Min(st2.low[parent], @)])
                      ELSE IF Len(rest) = 1
                      THEN BiconnectedLoop(g, [st1 EXCEPT !.root_children = @ + 1])
                      ELSE BiconnectedLoop(g, st1)

\* A root test that reports every root with a child.
RootWithAnyChild(root_children) == root_children > 0

\* The root of a search is an articulation point if it has more than one child.
RootIsArticulation(root_children) == root_children > 1

RECURSIVE BiconnectedFrom(_, _, _, _)
\* for start in G: ... ; `visited` is shared by the searches, the rest is per search
BiconnectedFrom(g, i, visited, yielded) ==
    IF i > Len(g.order) THEN yielded
    ELSE LET start == g.order[i]
         IN  IF start \in visited THEN BiconnectedFrom(g, i + 1, visited, yielded)
             ELSE LET st == BiconnectedLoop(g,
                                [visited |-> visited \cup {start},
                                 discovery |-> (start :> 0),
                                 low |-> (start :> 0),
                                 root_children |-> 0,
                                 stack |-> <<[gp |-> start, parent |-> start, idx |-> 1]>>,
                                 yielded |-> yielded])
                  IN  BiconnectedFrom(g, i + 1, st.visited,
                          IF RootIsArticulation(st.root_children)
                          THEN Append(st.yielded, start) ELSE st.yielded)

RECURSIVE Dedup(_, _)
\* keeps the first occurrence of every element
Dedup(s, seen) ==
    IF s = <<>> THEN <<>>
    ELSE IF Head(s) \in seen THEN Dedup(Tail(s), seen)
    ELSE <<Head(s)>> \o Dedup(Tail(s), seen \cup {Head(s)})

\* list(nx.articulation_points(G))
ArticulationPoints(g) == Dedup(BiconnectedFrom(g, 1, {}, <<>>), {})

(* nx.bridges(G): the edges that are in no chain of the chain               *)
(* decomposition.  _dfs_cycle_forest runs dfs_labeled_edges and keeps, per *)
(* node, its tree parent (<<>> for a root) and, in `hout`, the nontree     *)
(* edges directed from the ancestor to the descendant; `nodes` is the DFS  *)
(* preorder.                                                                *)

\* v in H[u]: the successors of u in the directed forest H
InH(st, u, v) == st.parent[u] = <<v>> \/ Contains(st.hout[u], v)

RECURSIVE LabeledEdgesLoop(_, _)
LabeledEdgesLoop(g, st) ==
    IF st.stack = <<>> THEN st
    ELSE LET n      == Len(st.stack)
             parent == st.stack[n].node
         IN  IF st.stack[n].idx <= Len(g.adj[parent])
             THEN LET child == g.adj[parent][st.stack[n].idx]
                      st1   == [st EXCEPT !.stack[n].idx = @ + 1]
                  IN  IF child \in st1.visited
                      THEN \* (parent, child, "nontree")
                           IF ~InH(st1, parent, child)
                           THEN LabeledEdgesLoop(g,
                                  [st1 EXCEPT !.hout[child] = Append(@, parent)])
                           ELSE LabeledEdgesLoop(g, st1)
                      ELSE \* (parent, child, "forward")
                           LabeledEdgesLoop(g,
                                  [st1 EXCEPT !.visited = @ \cup {child},
                                              !.parent = (child :> <<parent>>) @@ @,
                                              !.hout = (child :> <<>>) @@ @,
                                              !.nodes = Append(@, child),
                                              !.stack = Append(@, [node |-> child,
                                                                    idx |-> 1])])
             ELSE LabeledEdgesLoop(g, [st EXCEPT !.stack = SubSeq(@, 1, n - 1)])

RECURSIVE CycleForestFrom(_, _, _)
CycleForestFrom(g, i, st) ==
    IF i > Len(g.order) THEN st
    ELSE LET start == g.order[i]
         IN  IF start \in st.visited THEN CycleForestFrom(g, i + 1, st)
             ELSE CycleForestFrom(g, i + 1,
                    LabeledEdgesLoop(g,
                        [st EXCEPT !.visited = @ \cup {start},
                                   !.parent = (start :> <<>>) @@ @,
                                   !.hout = (start :> <<>>) @@ @,
                                   !.nodes = Append(@, start),
                                   !.stack = <<[node |-> start, idx |-> 1]>>]))

\* _dfs_cycle_forest(G)
DfsCycleForest(g) ==
    CycleForestFrom(g, 1,
        [visited |-> {}, parent |-> EmptyDict, hout |-> EmptyDict, nodes |-> <<>>,
         stack |-> <<>>])

RECURSIVE BuildChain(_, _, _, _)
\* _build_chain(H, u, v, visited): [edges |-> the chain, visited |-> ...]
BuildChain(h, u, v, visited) ==
    IF v \in visited THEN [edges |-> {<<u, v>>}, visited |-> visited]
    ELSE LET r == BuildChain(h, v, h.parent[v][1], visited \cup {v})
         IN  [edges |-> {<<u, v>>} \cup r.edges, visited |-> r.visited]

RECURSIVE ChainsFrom(_, _, _, _, _)
\* for u in nodes: visited.add(u); for every nontree edge (u, v) out of u: a chain
ChainsFrom(h, i, j, visited, acc) ==
    IF i > Len(h.nodes) THEN acc
    ELSE LET u == h.nodes[i]
         IN  IF j > Len(h.hout[u]) THEN ChainsFrom(h, i + 1, 1, visited \cup {u}, acc)
             ELSE LET r == BuildChain(h, u, h.hout[u][j], visited \cup {u})
                  IN  ChainsFrom(h, i, j + 1, r.visited, acc \cup r.edges)

\* A chain decomposition that finds no chain, so that every edge is a bridge.
NoChainEdges(g) == {}

\* set(chain.from_iterable(nx.chain_decomposition(G)))
ChainEdges(g) == ChainsFrom(DfsCycleForest(g), 1, 1, {}, {})

\* A bridge test that looks for one orientation of the edge only.
IsBridgeOneWay(chainEdges, e) == <<e[1], e[2]>> \notin chainEdges

\* An edge of G.edges() is yielded when neither orientation is a chain edge.
IsBridge(chainEdges, e) ==
    <<e[1], e[2]>> \notin chainEdges /\ <<e[2], e[1]>> \notin chainEdges

\* list(nx.bridges(G))
Bridges(g) ==
    LET ce == ChainEdges(g)
    IN  SelectSeq(Edges(g), LAMBDA e : IsBridge(ce, e))

(* ----------------------------- the commands ---------------------------- *)

\* An option that was not given (None, or the empty string).
NONE == <<>>

\* data.get("node_type", default), data.get("label", default)
NodeType(g, n, default) == Get(g.attr[n], "node_type", default)

NodeLabel(g, n, default) == Get(g.attr[n], "label", default)

\* The edge attribute dictionary G.edges[a, b]
EdgeData(g, a, b) == g.eattr[{a, b}]

\* A count that records the presence of a kind, not how many nodes have it.
TypeCountsPresence(g, nodes) ==
    [t \in {NodeType(g, n, "unknown") : n \in nodes} |-> 1]

\* type_counts[t] = type_counts.get(t, 0) + 1 over the given nodes
TypeCounts(g, nodes) ==
    [t \in {NodeType(g, n, "unknown") : n \in nodes} |->
        Cardinality({n \in nodes : NodeType(g, n, "unknown") = t})]

\* edge_counts[t] = edge_counts.get(t, 0) + 1 over G.edges(data=True)
EdgeCounts(g) ==
    [t \in {Get(g.eattr[e], "edge_type", "unknown") : e \in DOMAIN g.eattr} |->
        Cardinality({e \in DOMAIN g.eattr : Get(g.eattr[e], "edge_type", "unknown") = t})]

\* A ranking that leaves the nodes in the order given.
RankAsGiven(g, nodes) == nodes

\* sorted(G, key=degree, reverse=True) over the given sequence of nodes
RankByDegree(g, nodes) ==
    SortedDesc([i \in 1..Len(nodes) |-> <<Degree(g, nodes[i]), nodes[i]>>])

\* The order of the node keys as strings ("entity:1" < "event:1" < "evidence:1"
\* < "hypothesis:1" < "source:1" < "suspect:1"); ids below 10 compare as numbers.
PrefixRank(p) ==
    CASE p = "entity" -> 1 [] p = "event" -> 2 [] p = "evidence" -> 3
      [] p = "hypothesis" -> 4 [] p = "source" -> 5 [] p = "suspect" -> 6

KeyRank(k) == PrefixRank(k[1]) * 10 + k[2]

\* sorted(neighbors)
SortedKeys(keys) ==
    Reverse(SortedDesc([i \in 1..Len(keys) |-> <<KeyRank(keys[i]), keys[i]>>]))

\* The first k elements: s[:k]
Take(s, k) == SubSeq(s, 1, Min(k, Len(s)))

\* ranked[:20] in connections, connected[:10] in _inspect_overview,
\* bridge_edges[:20] in bridges
ConnectionsLimit == 20

OverviewLimit == 10

BridgeRowLimit == 20

\* bridges needs at least this many nodes
MinBridgeNodes == 3

NoOut == [cmd |-> "none"]

\* A command without options
NoArgs == EmptyDict

\* A failure that ends with exit status 0.
FailureExitZero(cmd, msg, node) == [cmd |-> cmd, exit |-> 0, msg |-> msg, node |-> node]

Failure(cmd, msg, node) == [cmd |-> cmd, exit |-> 1, msg |-> msg, node |-> node]

\* An empty state that ends as an error.
EmptyAsError(cmd) == [cmd |-> cmd, exit |-> 1, msg |-> "No data"]

EmptyResult(cmd) == [cmd |-> cmd, exit |-> 0, msg |-> "No data"]

\* summary, after _build_graph
SummaryResult(g) ==
    IF NumberOfNodes(g) = 0 THEN EmptyResult("summary")
    ELSE [cmd |-> "summary", exit |-> 0, msg |-> "Network Summary",
          total_nodes |-> NumberOfNodes(g),
          total_edges |-> NumberOfEdges(g),
          components  |-> NumberConnectedComponents(g),
          type_counts |-> TypeCounts(g, DOMAIN g.attr),
          edge_counts |-> EdgeCounts(g),
          has_density |-> NumberOfNodes(g) > 1,
          isolated    |-> Isolates(g)]

\* The row of the most-connected tables
RankRow(g, n) ==
    [node |-> n, node_type |-> NodeType(g, n, "?"), degree |-> Degree(g, n),
     label |-> NodeLabel(g, n, <<>>)]

\* The row of a neighbour in connections --node
NeighborRow(g, node, nb) ==
    LET edata == EdgeData(g, node, nb)
    IN  [node |-> nb,
         label |-> NodeLabel(g, nb, <<>>),
         node_type |-> NodeType(g, nb, "?"),
         edge_type |-> Get(edata, "edge_type", "?"),
         details |-> IF Get(edata, "relationship_type", "") # ""
                     THEN <<edata["relationship_type"]>>
                     ELSE IF Get(edata, "consistency", "") # ""
                     THEN <<"ACH", edata["consistency"],
                            Get(edata, "diagnostic_weight", "?")>>
                     ELSE <<>>]

\* A ranking that keeps the rows of degree 0.
MostConnectedRowsAll(g, ranked) ==
    LET shown == Take(ranked, ConnectionsLimit)
    IN  [i \in 1..Len(shown) |-> RankRow(g, shown[i])]

\* for node_id, data in ranked[:20]: if degree == 0: continue; add_row
MostConnectedRows(g, ranked) ==
    LET shown == SelectSeq(Take(ranked, ConnectionsLimit), LAMBDA n : Degree(g, n) # 0)
    IN  [i \in 1..Len(shown) |-> RankRow(g, shown[i])]

\* connections, after _build_graph
ConnectionsResult(g, node, node_type) ==
    IF NumberOfNodes(g) = 0 THEN EmptyResult("connections")
    ELSE IF node # NONE
    THEN IF ~HasNode(g, node) THEN Failure("connections", "NotFound", node)
         ELSE LET neighbors == Neighbors(g, node)
                  sorted == SortedKeys(neighbors)
              IN  IF neighbors = <<>>
                  THEN [cmd |-> "connections", exit |-> 0, msg |-> "No connections",
                        node |-> node]
                  ELSE [cmd |-> "connections", exit |-> 0, msg |-> "Connections",
                        node |-> node,
                        rows |-> [i \in 1..Len(sorted) |-> NeighborRow(g, node, sorted[i])]]
    ELSE LET nodes == IF node_type # ""
                      THEN SelectSeq(g.order, LAMBDA n :
                               "node_type" \in DOMAIN g.attr[n]
                               /\ g.attr[n]["node_type"] = node_type)
                      ELSE g.order
         IN  IF nodes = <<>>
             THEN [cmd |-> "connections", exit |-> 0, msg |-> "No matching nodes",
                   node_type |-> node_type]
             ELSE [cmd |-> "connections", exit |-> 0, msg |-> "Most Connected Nodes",
                   node_type |-> node_type,
                   rows |-> MostConnectedRows(g, RankByDegree(g, nodes))]

\* The components in the order in which the search finds them.
UnsortedComponents(g) == ConnectedComponents(g)

\* sorted(nx.connected_components(G), key=len, reverse=True)
SortedComponents(g) ==
    LET cs == ConnectedComponents(g)
    IN  SortedDesc([i \in 1..Len(cs) |-> <<Cardinality(cs[i]), cs[i]>>])

\* clusters, after _build_graph
ClustersResult(g) ==
    IF NumberOfNodes(g) = 0 THEN EmptyResult("clusters")
    ELSE LET components == SortedComponents(g)
         IN  IF Len(components) <= 1
             THEN [cmd |-> "clusters", exit |-> 0, msg |-> "single component"]
             ELSE [cmd |-> "clusters", exit |-> 0, msg |-> "separate clusters",
                   found |-> Len(components),
                   clusters |-> [i \in 1..Len(components) |->
                       [nodes |-> components[i],
                        size |-> Cardinality(components[i]),
                        type_counts |-> TypeCounts(g, components[i])]]]

\* A size test that lets a graph of 2 nodes through.
TooSmallBelowTwo(g) == NumberOfNodes(g) < MinBridgeNodes - 1

\* if G.number_of_nodes() < 3
TooSmallForBridges(g) == NumberOfNodes(g) < MinBridgeNodes

\* bridges, after _build_graph
BridgesResult(g) ==
    IF TooSmallForBridges(g)
    THEN [cmd |-> "bridges", exit |-> 0, msg |-> "Need at least 3 nodes"]
    ELSE LET art_points   == ArticulationPoints(g)
             bridge_edges == Bridges(g)
             ranked       == RankByDegree(g, art_points)
             shown        == Take(bridge_edges, BridgeRowLimit)
         IN  [cmd |-> "bridges", exit |-> 0, msg |-> "analysis",
              art_points   |-> art_points,
              art_rows     |-> [i \in 1..Len(ranked) |-> RankRow(g, ranked[i])],
              bridge_edges |-> bridge_edges,
              bridge_rows  |-> [i \in 1..Len(shown) |->
                  [from |-> NodeLabel(g, shown[i][1], shown[i][1]),
                   to   |-> NodeLabel(g, shown[i][2], shown[i][2]),
                   edge_type |-> Get(EdgeData(g, shown[i][1], shown[i][2]),
                                     "edge_type", "?")]]]

\* The lines printed for the path: the node, and from the second node on the
\* kind of the edge that leads to it.
PathSteps(g, path) ==
    [i \in 1..Len(path) |->
        [node |-> path[i],
         node_type |-> NodeType(g, path[i], "?"),
         edge_type |-> IF i > 1
                       THEN Get(EdgeData(g, path[i - 1], path[i]), "edge_type", "?")
                       ELSE ""]]

\* A hop count that counts the nodes of the path.
HopsCountsNodes(path) == Len(path)

\* len(path) - 1
Hops(path) == Len(path) - 1

\* paths, after _build_graph
PathsResult(g, source, target) ==
    IF ~HasNode(g, source)
    THEN Failure("paths", "NotFound", source)
    ELSE IF ~HasNode(g, target)
    THEN Failure("paths", "NotFound", target)
    ELSE LET r == ShortestPath(g, source, target)
         IN  IF r = <<>>
             THEN [cmd |-> "paths", exit |-> 0, msg |-> "No path exists"]
             ELSE [cmd |-> "paths", exit |-> 0, msg |-> "Path found",
                   hops  |-> Hops(r[1]),
                   path  |-> r[1],
                   steps |-> PathSteps(g, r[1])]

(* ------------------------- visualize and inspect ----------------------- *)

NODE_COLORS ==
    [entity |-> "#3498db", evidence |-> "#e74c3c", event |-> "#2ecc71",
     hypothesis |-> "#f39c12", suspect_pool |-> "#9b59b6", source |-> "#95a5a6"]

NODE_SHAPES ==
    [entity |-> "dot", evidence |-> "triangle", event |-> "square",
     hypothesis |-> "diamond", suspect_pool |-> "star", source |-> "database"]

EDGE_COLORS ==
    [relationship |-> "#3498db", alias |-> "#95a5a6", sourced_from |-> "#2ecc71",
     ach_score |-> "#f39c12"]

\* the length of the on-graph labels of visualize
GraphLabelLength == 30

\* the length of the labels in the tables of inspect
InspectLabelLength == 40

\* net.add_node(...) of visualize: size = max(10, 8 + degree * 4)
PresentationNode(g, n) ==
    LET ntype == NodeType(g, n, "unknown")
    IN  [key   |-> n,
         label |-> IF "label" \in DOMAIN g.attr[n]
                   THEN <<Truncate(g.attr[n]["label"], GraphLabelLength)>>
                   ELSE <<n>>,
         color |-> Get(NODE_COLORS, ntype, "#cccccc"),
         shape |-> Get(NODE_SHAPES, ntype, "dot"),
         size  |-> Max(10, 8 + Degree(g, n) * 4)]

\* An edge export that draws every edge as a solid line of width 1.
PresentationEdgePlain(g, e) ==
    LET edata == EdgeData(g, e[1], e[2])
        etype == Get(edata, "edge_type", "unknown")
    IN  [a |-> e[1], b |-> e[2],
         title  |-> etype,
         color  |-> Get(EDGE_COLORS, etype, "#666666"),
         dashes |-> FALSE,
         width  |-> 1]

\* net.add_edge(...) of visualize
PresentationEdge(g, e) ==
    LET edata == EdgeData(g, e[1], e[2])
        etype == Get(edata, "edge_type", "unknown")
    IN  [a |-> e[1], b |-> e[2],
         title  |-> IF Get(edata, "relationship_type", "") # ""
                    THEN edata["relationship_type"]
                    ELSE IF Get(edata, "consistency", "") # "" THEN "ACH"
                    ELSE etype,
         color  |-> Get(EDGE_COLORS, etype, "#666666"),
         dashes |-> etype = "alias",
         width  |-> IF etype \in {"relationship", "ach_score"} THEN 2 ELSE 1]

\* An output path that ignores --output.
OutPathDefault(output) == "<case>-network.html"

\* output or f"{case}-network.html"
OutPath(output) == IF output # "" THEN output ELSE "<case>-network.html"

\* visualize, after _build_graph
VisualizeResult(g, output, no_open) ==
    IF NumberOfNodes(g) = 0
    THEN EmptyResult("visualize") @@ [files |-> {}, browser |-> FALSE]
    ELSE LET edges == Edges(g)
         IN  [cmd |-> "visualize", exit |-> 0, msg |-> "Saved interactive graph",
              out_path |-> OutPath(output),
              files    |-> {OutPath(output)},
              browser  |-> ~no_open,
              nodes    |-> [i \in 1..Len(g.order) |-> PresentationNode(g, g.order[i])],
              edges    |-> [i \in 1..Len(edges) |-> PresentationEdge(g, edges[i])],
              saved_nodes |-> NumberOfNodes(g),
              saved_edges |-> NumberOfEdges(g)]

\* _inspect_node(G, node_id, case)
InspectNode(g, node_id) ==
    IF ~HasNode(g, node_id) THEN Failure("inspect", "NotFound", node_id)
    ELSE LET neighbors == Neighbors(g, node_id)
             sorted    == SortedKeys(neighbors)
         IN  [cmd |-> "inspect", exit |-> 0,
              msg |-> IF neighbors = <<>> THEN "No connections" ELSE "Connections",
              node |-> node_id,
              node_type |-> NodeType(g, node_id, "?"),
              degree |-> Degree(g, node_id),
              rows |-> [i \in 1..Len(sorted) |->
                  [node |-> sorted[i],
                   node_type |-> NodeType(g, sorted[i], "?"),
                   label |-> Truncate(NodeLabel(g, sorted[i], <<>>), InspectLabelLength),
                   edge_type |-> Get(EdgeData(g, node_id, sorted[i]), "edge_type", "?")]]]

\* _inspect_overview(G, nx, case)
InspectOverview(g) ==
    LET ranked    == RankByDegree(g, g.order)
        connected == SelectSeq(ranked, LAMBDA n : Degree(g, n) > 0)
        shown     == Take(connected, OverviewLimit)
        isolated  == Isolates(g)
    IN  [cmd |-> "inspect", exit |-> 0, msg |-> "Network Overview",
         total_nodes |-> NumberOfNodes(g),
         total_edges |-> NumberOfEdges(g),
         components  |-> NumberConnectedComponents(g),
         type_counts |-> TypeCounts(g, DOMAIN g.attr),
         rows        |-> [i \in 1..Len(shown) |-> RankRow(g, shown[i])],
         isolated    |-> isolated,
         iso_by_type |-> TypeCounts(g, Range(isolated))]

\* inspect, after _build_graph
InspectResult(g, focus) ==
    IF NumberOfNodes(g) = 0 THEN EmptyResult("inspect")
    ELSE IF focus # NONE THEN InspectNode(g, focus)
    ELSE InspectOverview(g)

(* --------------------------- the state machine ------------------------- *)
(* db is the case database; pc is "idle" between two invocations of the    *)
(* command line and "done" when a command has ended; args are the options  *)
(* the command was given, G is the graph it built and out what it reported *)
(* (exit status included).                                                  *)

\* The node keys of the records of the record source.
RecordKeys(d) ==
    {Key("entity", d.entities[i].id) : i \in 1..Len(d.entities)}
    \cup {Key("evidence", d.evidence_items[i].id) : i \in 1..Len(d.evidence_items)}
    \cup {Key("event", d.events[i].id) : i \in 1..Len(d.events)}
    \cup {Key("hypothesis", d.hypotheses[i].id) : i \in 1..Len(d.hypotheses)}
    \cup {Key("suspect", d.suspect_pools[i].id) : i \in 1..Len(d.suspect_pools)}
    \cup {Key("source", d.sources[i].id) : i \in 1..Len(d.sources)}

\* The node keys a caller may name: every key the bounded record source can
\* give a node, whether or not the built graph has it, and the keys of the
\* records the record source holds.
QueryKeys ==
    {Key("entity", i) : i \in 1..MaxEntities}
    \cup {Key(p, i) : p \in KeyPrefixes \ {"entity"}, i \in 1..MaxOther}
    \cup RecordKeys(db)

\* The values of --type: not given, or a node kind
TypeArgs == {""} \cup NodeKinds

\* The values of --output: not given, or a path
OutputArgs == {"", "graph.html"}

Init ==
    /\ db = EmptyDb
    /\ pc = "idle"
    /\ G = EmptyGraph
    /\ args = NoArgs
    /\ out = NoOut

\* The record source takes one more row while fewer than MaxRows are stored.
CanInsert(table, cap) ==
    /\ pc = "idle"
    /\ RowCount(db) < MaxRows
    /\ Len(db[table]) < cap

InsertEntity ==
    /\ CanInsert("entities", MaxEntities)
    /\ \E src \in SourceRefs, canon \in {NULL} \cup EntityRefs :
          db' = [db EXCEPT !.entities = Append(@,
                    [id |-> Len(@) + 1, name |-> <<"E">> \o IdStr(Len(@) + 1),
                     source_id |-> src, canonical_id |-> canon])]
    /\ UNCHANGED <<pc, G, args, out>>

InsertEvidence ==
    /\ CanInsert("evidence_items", MaxOther)
    /\ \E src \in SourceRefs :
          db' = [db EXCEPT !.evidence_items = Append(@,
                    [id |-> Len(@) + 1, name |-> <<"K">> \o IdStr(Len(@) + 1),
                     source_id |-> src])]
    /\ UNCHANGED <<pc, G, args, out>>

InsertEvent ==
    /\ CanInsert("events", MaxOther)
    /\ \E src \in SourceRefs :
          db' = [db EXCEPT !.events = Append(@,
                    [id |-> Len(@) + 1, description |-> <<"C">> \o IdStr(Len(@) + 1),
                     source_id |-> src])]
    /\ UNCHANGED <<pc, G, args, out>>

InsertHypothesis ==
    /\ CanInsert("hypotheses", MaxOther)
    /\ db' = [db EXCEPT !.hypotheses = Append(@,
                 [id |-> Len(@) + 1, description |-> <<"H">> \o IdStr(Len(@) + 1)])]
    /\ UNCHANGED <<pc, G, args, out>>

InsertSuspectPool ==
    /\ CanInsert("suspect_pools", MaxOther)
    /\ db' = [db EXCEPT !.suspect_pools = Append(@,
                 [id |-> Len(@) + 1, category |-> <<"P">> \o IdStr(Len(@) + 1)])]
    /\ UNCHANGED <<pc, G, args, out>>

InsertSource ==
    /\ CanInsert("sources", MaxOther)
    /\ db' = [db EXCEPT !.sources = Append(@,
                 [id |-> Len(@) + 1, source_type |-> <<"o">>])]
    /\ UNCHANGED <<pc, G, args, out>>

InsertRelationship ==
    /\ CanInsert("relationships", MaxOther)
    /\ \E a \in EntityRefs, b \in EntityRefs :
          db' = [db EXCEPT !.relationships = Append(@,
                    [id |-> Len(@) + 1, entity_a_id |-> a, entity_b_id |-> b,
                     relationship_type |-> "known_associate", strength |-> "0.7",
                     confirmed |-> FALSE])]
    /\ UNCHANGED <<pc, G, args, out>>

InsertScore ==
    /\ CanInsert("hypothesis_evidence_scores", MaxOther)
    /\ \E h \in 1..MaxOther, e \in 1..MaxOther :
          db' = [db EXCEPT !.hypothesis_evidence_scores = Append(@,
                    [hypothesis_id |-> h, evidence_id |-> e,
                     consistency |-> "C", diagnostic_weight |-> "H"])]
    /\ UNCHANGED <<pc, G, args, out>>

\* A command that strips the edge attributes of the graph it was given.
RunStripsEdgeData(g, a, result) ==
    /\ pc = "idle"
    /\ pc' = "done"
    /\ G' = [g EXCEPT !.eattr = [e \in DOMAIN g.eattr |-> EmptyDict]]
    /\ args' = a
    /\ out' = result
    /\ UNCHANGED db

\* A command opens the case database, builds the graph, reports and ends.
Run(g, a, result) ==
    /\ pc = "idle"
    /\ pc' = "done"
    /\ G' = g
    /\ args' = a
    /\ out' = result
    /\ UNCHANGED db

summary == LET g == BuildGraph(db) IN Run(g, NoArgs, SummaryResult(g))

connections ==
    LET g == BuildGraph(db)
    IN  \E node \in {NONE} \cup QueryKeys, node_type \in TypeArgs :
            Run(g, [node |-> node, node_type |-> node_type],
                ConnectionsResult(g, node, node_type))

clusters == LET g == BuildGraph(db) IN Run(g, NoArgs, ClustersResult(g))

bridges == LET g == BuildGraph(db) IN Run(g, NoArgs, BridgesResult(g))

paths ==
    LET g == BuildGraph(db)
    IN  \E source \in QueryKeys, target \in QueryKeys :
            Run(g, [source |-> source, target |-> target],
                PathsResult(g, source, target))

visualize ==
    LET g == BuildGraph(db)
    IN  \E output \in OutputArgs, no_open \in BOOLEAN :
            Run(g, [output |-> output, no_open |-> no_open],
                VisualizeResult(g, output, no_open))

inspect ==
    LET g == BuildGraph(db)
    IN  \E focus \in {NONE} \cup QueryKeys :
            Run(g, [focus |-> focus], InspectResult(g, focus))

\* The process ends; the next invocation starts from the record source alone.
Exit ==
    /\ pc = "done"
    /\ pc' = "idle"
    /\ G' = EmptyGraph
    /\ args' = NoArgs
    /\ out' = NoOut
    /\ UNCHANGED db

Next ==
    \/ InsertEntity \/ InsertEvidence \/ InsertEvent \/ InsertHypothesis
    \/ InsertSuspectPool \/ InsertSource \/ InsertRelationship \/ InsertScore
    \/ summary \/ connections \/ clusters \/ bridges \/ paths \/ visualize \/ inspect
    \/ Exit

Spec == Init /\ [][Next]_vars

(* ------------------------ the end-to-end scenario ---------------------- *)
(* The commands run on the case database of the end-to-end scenario, which  *)
(* no command changes.                                                      *)

\* The case database of the end-to-end scenario: two sources, three entities,
\* one relationship, one evidence item, one hypothesis scored against it, one
\* event and one suspect pool.
case_with_data ==
    [sources |->
        <<[id |-> 1, source_type |-> <<"o", "f", "f", "i", "c", "i", "a",
            "l">>],
          [id |-> 2, source_type |-> <<"n", "e", "w", "s">>]>>,
     entities |->
        <<[id |-> 1, name |-> <<"V", "i", "c", "t", "i", "m", " ", "A">>,
           source_id |-> 1, canonical_id |-> NULL],
          [id |-> 2, name |-> <<"S", "u", "s", "p", "e", "c", "t", " ", "B">>,
           source_id |-> 1, canonical_id |-> NULL],
          [id |-> 3, name |-> <<"L", "o", "c", "a", "t", "i", "o", "n",
            " ", "X">>,
           source_id |-> 2, canonical_id |-> NULL]>>,
     relationships |->
        <<[id |-> 1, entity_a_id |-> 1, entity_b_id |-> 2,
           relationship_type |-> "known_associate", strength |-> "0.7",
           confirmed |-> FALSE]>>,
     evidence_items |->
        <<[id |-> 1, name |-> <<"K", "n", "i", "f", "e">>, source_id |-> 1]>>,
     hypotheses |->
        <<[id |-> 1, description |->
            <<"S", "u", "s", "p", "e", "c", "t", " ", "B", " ", "c", "o",
            "m", "m", "i", "t", "t", "e", "d", " ", "t", "h", "e", " ",
            "c", "r", "i", "m", "e">>]>>,
     hypothesis_evidence_scores |->
        <<[hypothesis_id |-> 1, evidence_id |-> 1, consistency |-> "C",
           diagnostic_weight |-> "H"]>>,
     events |->
        <<[id |-> 1, description |->
            <<"C", "r", "i", "m", "e", " ", "o", "c", "c", "u", "r", "r",
            "e", "d">>,
           source_id |-> 1]>>,
     suspect_pools |->
        <<[id |-> 1, category |->
            <<"K", "n", "o", "w", "n", " ", "a", "s", "s", "o", "c", "i",
            "a", "t", "e", "s">>]>>]

FixtureInit ==
    /\ db = case_with_data
    /\ pc = "idle"
    /\ G = EmptyGraph
    /\ args = NoArgs
    /\ out = NoOut

FixtureNext ==
    \/ summary \/ connections \/ clusters \/ bridges \/ paths \/ visualize \/ inspect
    \/ Exit

FixtureSpec == FixtureInit /\ [][FixtureNext]_vars

(* ------------------------ _build_graph, row by row --------------------- *)
(* The build as the sequence of its loop iterations: pc is "building"      *)
(* while _build_graph runs, args holds the loop (phase) and the row it is  *)
(* at, G is the graph so far.  The build ends by returning ("done") or by  *)
(* an exception that nothing in _build_graph or its callers catches        *)
(* ("raised").                                                             *)

\* Python's None in a text column (a text is a sequence of single characters).
None == <<"None">>

\* len(text) in _truncate raises TypeError when text is None.
TruncateRaises(text) == text = None

\* The loop body of this phase raises on this row: the event and hypothesis
\* loops pass row["description"] to _truncate.
RowRaises(phase, row) ==
    phase \in {"events", "hypotheses"} /\ TruncateRaises(row.description)

\* The rows the current loop iterates over.
CurrentRows == ReadRows(db, BuildPhases[args.phase])

InsertEventNoDescription ==
    /\ CanInsert("events", MaxOther)
    /\ \E src \in SourceRefs :
          db' = [db EXCEPT !.events = Append(@,
                    [id |-> Len(@) + 1, description |-> None, source_id |-> src])]
    /\ UNCHANGED <<pc, G, args, out>>

InsertHypothesisNoDescription ==
    /\ CanInsert("hypotheses", MaxOther)
    /\ db' = [db EXCEPT !.hypotheses = Append(@,
                 [id |-> Len(@) + 1, description |-> None])]
    /\ UNCHANGED <<pc, G, args, out>>

\* G = nx.Graph(), before the first loop
StartBuild ==
    /\ pc = "idle"
    /\ pc' = "building"
    /\ G' = EmptyGraph
    /\ args' = [phase |-> 1, row |-> 1]
    /\ out' = [cmd |-> "_build_graph"]
    /\ UNCHANGED db

\* An iteration that moves to the next row without doing the loop body.
BuildStepSkipsBody ==
    /\ pc = "building"
    /\ args.phase <= Len(BuildPhases)
    /\ args.row <= Len(CurrentRows)
    /\ ~RowRaises(BuildPhases[args.phase], CurrentRows[args.row])
    /\ G' = (IF BuildPhases[args.phase] = "ach_score" THEN G
             ELSE ApplyRow(BuildPhases[args.phase], G, CurrentRows[args.row]))
    /\ args' = [args EXCEPT !.row = @ + 1]
    /\ UNCHANGED <<db, pc, out>>

\* One iteration of the current loop.
BuildStep ==
    /\ pc = "building"
    /\ args.phase <= Len(BuildPhases)
    /\ args.row <= Len(CurrentRows)
    /\ ~RowRaises(BuildPhases[args.phase], CurrentRows[args.row])
    /\ G' = ApplyRow(BuildPhases[args.phase], G, CurrentRows[args.row])
    /\ args' = [args EXCEPT !.row = @ + 1]
    /\ UNCHANGED <<db, pc, out>>

\* An iteration that raises: the exception leaves _build_graph.
BuildRaise ==
    /\ pc = "building"
    /\ args.phase <= Len(BuildPhases)
    /\ args.row <= Len(CurrentRows)
    /\ RowRaises(BuildPhases[args.phase], CurrentRows[args.row])
    /\ pc' = "raised"
    /\ out' = [cmd |-> "_build_graph", exit |-> 1, msg |-> "TypeError"]
    /\ UNCHANGED <<db, G, args>>

\* The current loop has no more rows: the next loop starts.
NextPhase ==
    /\ pc = "building"
    /\ args.phase <= Len(BuildPhases)
    /\ args.row > Len(CurrentRows)
    /\ args' = [phase |-> args.phase + 1, row |-> 1]
    /\ UNCHANGED <<db, pc, G, out>>

\* return G
BuildReturn ==
    /\ pc = "building"
    /\ args.phase > Len(BuildPhases)
    /\ pc' = "done"
    /\ UNCHANGED <<db, G, args, out>>

\* The process ends with the traceback of the exception.
Traceback ==
    /\ pc = "raised"
    /\ pc' = "idle"
    /\ G' = EmptyGraph
    /\ args' = NoArgs
    /\ out' = NoOut
    /\ UNCHANGED db

BuildNext ==
    \/ InsertEntity \/ InsertEvidence \/ InsertEvent \/ InsertHypothesis
    \/ InsertSuspectPool \/ InsertSource \/ InsertRelationship \/ InsertScore
    \/ InsertEventNoDescription \/ InsertHypothesisNoDescription
    \/ StartBuild \/ BuildStep \/ BuildRaise \/ NextPhase \/ BuildReturn
    \/ Traceback \/ Exit

BuildSpec == Init /\ [][BuildNext]_vars

(* ------------------- definitions used by the properties ---------------- *)
(* These speak of the graph as a set of nodes and a set of unordered       *)
(* pairs, without the adjacency lists the algorithms walk.                 *)

NodeSet(g) == DOMAIN g.attr

EdgeSet(g) == DOMAIN g.eattr

RECURSIVE Closure(_, _, _)
\* The nodes of `nodes` that `edges` join to a node of `seen`, transitively.
Closure(nodes, edges, seen) ==
    LET more == {n \in nodes \ seen : \E m \in seen : {n, m} \in edges}
    IN  IF more = {} THEN seen ELSE Closure(nodes, edges, seen \cup more)

\* The connected components of the graph (nodes, edges), as a set of sets.
ComponentsOf(nodes, edges) == {Closure(nodes, edges, {n}) : n \in nodes}

ComponentCount(nodes, edges) == Cardinality(ComponentsOf(nodes, edges))

SameComponent(g, a, b) == b \in Closure(NodeSet(g), EdgeSet(g), {a})

\* The number of components when edge e alone is removed.
CountWithoutEdge(g, e) == ComponentCount(NodeSet(g), EdgeSet(g) \ {e})

\* The number of components when node n and its incident edges are removed.
CountWithoutNode(g, n) ==
    ComponentCount(NodeSet(g) \ {n}, {e \in EdgeSet(g) : n \notin e})

RECURSIVE DistanceFrom(_, _, _, _)
\* The number of edges of a shortest walk from the set `seen` (at distance d
\* from the start) to target; -1 when there is none.
DistanceFrom(g, seen, target, d) ==
    IF target \in seen THEN d
    ELSE LET more == {n \in NodeSet(g) \ seen : \E m \in seen : {n, m} \in EdgeSet(g)}
         IN  IF more = {} THEN -1 ELSE DistanceFrom(g, seen \cup more, target, d + 1)

Distance(g, a, b) == DistanceFrom(g, {a}, b, 0)

\* The edges that touch node n.
IncidentEdges(g, n) == {e \in EdgeSet(g) : n \in e}

\* The table whose records give the nodes with this key prefix.
TableOf(prefix) ==
    CASE prefix = "entity" -> "entities" [] prefix = "evidence" -> "evidence_items"
      [] prefix = "event" -> "events" [] prefix = "hypothesis" -> "hypotheses"
      [] prefix = "suspect" -> "suspect_pools" [] prefix = "source" -> "sources"

KindOf(prefix) == IF prefix = "suspect" THEN "suspect_pool" ELSE prefix

\* The record source holds the record a node key names.
RecordExists(d, k) == \E i \in 1..Len(d[TableOf(k[1])]) : d[TableOf(k[1])][i].id = k[2]

RECURSIVE SumSeq(_)
SumSeq(s) == IF s = <<>> THEN 0 ELSE Head(s) + SumSeq(Tail(s))

RECURSIVE SumOver(_, _)
\* The sum of f over the set of keys ks.
SumOver(f, ks) ==
    IF ks = {} THEN 0
    ELSE LET k == CHOOSE x \in ks : TRUE IN f[k] + SumOver(f, ks \ {k})

Done(cmd) == pc = "done" /\ out.cmd = cmd

(* ------------------------------ properties ----------------------------- *)

\* The node keys of the graph the command built, and whether a key the
\* caller named is one of them.
Built(k) == k \in NodeSet(G)

\* C1: after _build_graph every endpoint of every edge is a node created in
\* the node phase from a record of its kind (it has the node_type of its
\* kind and a label), and a link row whose endpoint record does not exist
\* adds no edge and no node, for all six link types.
C1_EdgeEndpointsAreRecordNodes ==
    pc = "done" =>
        /\ \A e \in EdgeSet(G) : \A n \in e :
              /\ Built(n)
              /\ RecordExists(db, n)
              /\ "label" \in DOMAIN G.attr[n]
              /\ NodeType(G, n, "unknown") = KindOf(n[1])
        /\ \A n \in NodeSet(G) : RecordExists(db, n)

\* The pair of a reported bridge, as an edge of the graph.
ReportedBridges == {{out.bridge_edges[i][1], out.bridge_edges[i][2]} :
                        i \in 1..Len(out.bridge_edges)}

\* C2: on a built graph with at least 3 nodes, connected or not, an edge is
\* in the bridge list of the bridges command if and only if removing that edge
\* alone raises the number of connected components, and then it raises it by
\* exactly one.
C2_BridgesExact ==
    (Done("bridges") /\ Cardinality(NodeSet(G)) >= 3) =>
        /\ out.msg = "analysis"
        /\ ReportedBridges \subseteq EdgeSet(G)
        /\ \A e \in EdgeSet(G) :
              LET before == ComponentCount(NodeSet(G), EdgeSet(G))
                  after  == CountWithoutEdge(G, e)
              IN  /\ (e \in ReportedBridges) <=> (after > before)
                  /\ (e \in ReportedBridges) => (after = before + 1)

\* C2's case: a graph of at least 3 nodes in which one edge is reported as a
\* bridge and another edge is not.
C2_Witness ==
    /\ Done("bridges") /\ out.msg = "analysis"
    /\ ReportedBridges # {}
    /\ EdgeSet(G) \ ReportedBridges # {}

\* C3: on a built graph with at least 3 nodes, connected or not, a node is in
\* the articulation-point list of the bridges command if and only if removing
\* it with its incident edges strictly increases the number of connected
\* components.
C3_ArticulationExact ==
    (Done("bridges") /\ Cardinality(NodeSet(G)) >= 3) =>
        /\ out.msg = "analysis"
        /\ Range(out.art_points) \subseteq NodeSet(G)
        /\ \A n \in NodeSet(G) :
              (n \in Range(out.art_points))
                  <=> (CountWithoutNode(G, n) > ComponentCount(NodeSet(G), EdgeSet(G)))

\* C3's case: a disconnected graph with a reported articulation point and a
\* node with edges that is not reported.
C3_Witness ==
    /\ Done("bridges") /\ out.msg = "analysis"
    /\ ComponentCount(NodeSet(G), EdgeSet(G)) > 1
    /\ Range(out.art_points) # {}
    /\ \E n \in NodeSet(G) \ Range(out.art_points) : IncidentEdges(G, n) # {}

\* C4: when source and target are nodes of the built graph in the same
\* connected component, paths reports a sequence of node keys from source to
\* target with an edge between every two consecutive keys and as short as any
\* such sequence; the hop count is the number of keys minus one (0 when source
\* equals target, 1 for directly linked nodes, 2 for an evidence item and an
\* event that share a source).
C4_ShortestPath ==
    (Done("paths") /\ Built(args.source) /\ Built(args.target)
        /\ SameComponent(G, args.source, args.target)) =>
        /\ out.exit = 0
        /\ out.msg = "Path found"
        /\ out.path[1] = args.source
        /\ out.path[Len(out.path)] = args.target
        /\ \A i \in 1..(Len(out.path) - 1) : {out.path[i], out.path[i + 1]} \in EdgeSet(G)
        /\ Len(out.path) - 1 = Distance(G, args.source, args.target)
        /\ out.hops = Len(out.path) - 1
        /\ (args.source = args.target) => (out.hops = 0)
        /\ (args.source # args.target /\ {args.source, args.target} \in EdgeSet(G))
              => (out.hops = 1)
        /\ (/\ args.source[1] = "evidence" /\ args.target[1] = "event"
            /\ \E n \in NodeSet(G) :
                  /\ n[1] = "source"
                  /\ {args.source, n} \in EdgeSet(G)
                  /\ {args.target, n} \in EdgeSet(G))
              => (out.hops = 2)

\* C4's case: the path found from an evidence item to an event through the
\* source they share.
C4_Witness ==
    /\ Done("paths") /\ out.msg = "Path found"
    /\ args.source[1] = "evidence" /\ args.target[1] = "event"
    /\ out.hops = 2
    /\ out.path[2][1] = "source"

\* C5: for two nodes a and b of a built graph, paths(a, b) and paths(b, a)
\* report the same hop count, and paths(a, b) reports 'No path exists' if and
\* only if a and b are in different connected components.
C5_PathSymmetry ==
    (Done("paths") /\ Built(args.source) /\ Built(args.target)) =>
        LET back == PathsResult(G, args.target, args.source)
        IN  /\ out.msg \in {"Path found", "No path exists"}
            /\ (out.msg = "No path exists")
                  <=> ~SameComponent(G, args.source, args.target)
            /\ back.msg = out.msg
            /\ (out.msg = "Path found") => (back.hops = out.hops)

\* C5's case: two nodes in different components, reported as unreachable.
C5_Witness ==
    /\ Done("paths") /\ Built(args.source) /\ Built(args.target)
    /\ out.msg = "No path exists"

\* The result of a NotFound failure: a non-zero exit and nothing but the
\* error that names the node.
IsNotFound(node) ==
    /\ out.exit # 0
    /\ out.msg = "NotFound"
    /\ out.node = node
    /\ DOMAIN out = {"cmd", "exit", "msg", "node"}

\* C6: a query that names a node key absent from the built graph ends in the
\* NotFound failure (non-zero exit) and produces no result: paths when source
\* or target is absent, connections with --node, inspect with --focus; the
\* unreachable outcome of paths is distinct and ends successfully.
C6_AbsentKeyNotFound ==
    /\ (Done("paths") /\ ~Built(args.source)) => IsNotFound(args.source)
    /\ (Done("paths") /\ Built(args.source) /\ ~Built(args.target))
          => IsNotFound(args.target)
    /\ (Done("paths") /\ out.msg = "No path exists") => out.exit = 0
    /\ (Done("connections") /\ args.node # NONE /\ ~Built(args.node))
          => IsNotFound(args.node)
    /\ (Done("inspect") /\ args.focus # NONE /\ ~Built(args.focus))
          => IsNotFound(args.focus)

\* C6 as amended: connections --node and inspect --focus end in NotFound for
\* an absent key only when the built graph has at least one node; on a graph
\* with zero nodes they report 'No data' and end successfully.  paths ends in
\* NotFound for an absent source or target on every graph.
C6_AbsentKeyNotFoundNonEmpty ==
    /\ (Done("paths") /\ ~Built(args.source)) => IsNotFound(args.source)
    /\ (Done("paths") /\ Built(args.source) /\ ~Built(args.target))
          => IsNotFound(args.target)
    /\ (Done("paths") /\ out.msg = "No path exists") => out.exit = 0
    /\ (Done("connections") /\ args.node # NONE /\ ~Built(args.node))
          => IF NodeSet(G) # {} THEN IsNotFound(args.node)
             ELSE out.exit = 0 /\ out.msg = "No data"
    /\ (Done("inspect") /\ args.focus # NONE /\ ~Built(args.focus))
          => IF NodeSet(G) # {} THEN IsNotFound(args.focus)
             ELSE out.exit = 0 /\ out.msg = "No data"

\* C6's case: inspect --focus with a key that a non-empty graph does not have.
C6_Witness ==
    /\ Done("inspect") /\ args.focus # NONE /\ ~Built(args.focus)
    /\ NodeSet(G) # {}
    /\ out.exit = 1

\* C7: when the built graph has zero nodes, summary, connections, clusters,
\* visualize and inspect report 'No data' and end with exit status 0, whatever
\* their other arguments.
C7_EmptyGraphNoData ==
    (pc = "done" /\ NodeSet(G) = {}
        /\ out.cmd \in {"summary", "connections", "clusters", "visualize", "inspect"})
        => (out.exit = 0 /\ out.msg = "No data")

\* C7's case: connections --node --type on a case whose record source has
\* rows but whose graph has no node.
C7_Witness ==
    /\ Done("connections") /\ NodeSet(G) = {}
    /\ args.node # NONE /\ args.node_type # ""
    /\ RowCount(db) > 0
    /\ out.msg = "No data"

\* C8: bridges computes articulation points and bridges only when the built
\* graph has at least 3 nodes; for 0, 1 or 2 nodes it reports 'Need at least 3
\* nodes', ends successfully and reports neither list.
C8_BridgesNeedThreeNodes ==
    Done("bridges") =>
        IF Cardinality(NodeSet(G)) >= 3
        THEN /\ out.msg = "analysis"
             /\ {"art_points", "bridge_edges"} \subseteq DOMAIN out
        ELSE /\ out.msg = "Need at least 3 nodes"
             /\ out.exit = 0
             /\ DOMAIN out = {"cmd", "exit", "msg"}

\* C8's case: bridges on a graph of exactly 2 nodes joined by an edge.
C8_Witness ==
    /\ Done("bridges") /\ Cardinality(NodeSet(G)) = 2 /\ EdgeSet(G) # {}
    /\ out.msg = "Need at least 3 nodes"

\* C9: the node counts by kind of summary add up to the total node count, and
\* the sizes of the components of clusters add up to the total node count: the
\* components are disjoint and cover the node set.
C9_CountsAddUp ==
    /\ (Done("summary") /\ out.msg = "Network Summary") =>
          /\ out.total_nodes = Cardinality(NodeSet(G))
          /\ SumOver(out.type_counts, DOMAIN out.type_counts) = out.total_nodes
    /\ (Done("clusters") /\ out.msg = "separate clusters") =>
          /\ SumSeq([i \in 1..Len(out.clusters) |-> out.clusters[i].size])
                = Cardinality(NodeSet(G))
          /\ \A i \in 1..Len(out.clusters) :
                out.clusters[i].size = Cardinality(out.clusters[i].nodes)
          /\ UNION {out.clusters[i].nodes : i \in 1..Len(out.clusters)} = NodeSet(G)
          /\ \A i, j \in 1..Len(out.clusters) :
                i # j => out.clusters[i].nodes \cap out.clusters[j].nodes = {}

\* C9's case: a summary over nodes of three kinds.
C9_Witness ==
    /\ Done("summary") /\ out.msg = "Network Summary"
    /\ Cardinality(DOMAIN out.type_counts) >= 3

\* The degree of a node: its incident edges, a self-loop counted twice.
TrueDegree(n) == Cardinality(IncidentEdges(G, n)) + (IF {n} \in EdgeSet(G) THEN 1 ELSE 0)

\* C10: in the most-connected views (connections without --node, the inspect
\* overview) the rows are in non-increasing degree order and no row has degree
\* 0; the isolated-node list of summary holds exactly the nodes of degree 0.
C10_RankingAndIsolated ==
    /\ ((Done("connections") /\ out.msg = "Most Connected Nodes")
            \/ (Done("inspect") /\ out.msg = "Network Overview")) =>
          /\ \A i \in 1..Len(out.rows) :
                /\ out.rows[i].degree = TrueDegree(out.rows[i].node)
                /\ out.rows[i].degree # 0
          /\ \A i \in 1..(Len(out.rows) - 1) : out.rows[i].degree >= out.rows[i + 1].degree
    /\ (Done("summary") /\ out.msg = "Network Summary") =>
          Range(out.isolated) = {n \in NodeSet(G) : TrueDegree(n) = 0}

\* C10's case: the unfiltered ranking of a graph that has an isolated node and
\* rows of two different degrees.
C10_Witness ==
    /\ Done("connections") /\ out.msg = "Most Connected Nodes"
    /\ args.node_type = ""
    /\ \E n \in NodeSet(G) : TrueDegree(n) = 0
    /\ Len(out.rows) >= 2
    /\ out.rows[1].degree > out.rows[Len(out.rows)].degree

\* The place of a kind in the node phase of the builder.
KindIndex(prefix) ==
    CASE prefix = "entity" -> 1 [] prefix = "evidence" -> 2 [] prefix = "event" -> 3
      [] prefix = "hypothesis" -> 4 [] prefix = "suspect" -> 5 [] prefix = "source" -> 6

\* The evidence rows that name the source with this id, in the order of the
\* evidence -> source loop.
EvidenceRowsNaming(d, id) ==
    {i \in 1..Len(d.evidence_items) : d.evidence_items[i].source_id = id}

\* The place of a node among the nodes of its kind: the position of the
\* record with this id in its table; a source node that no record gives is
\* created by the first evidence row that names it, behind every node of a
\* record.
RecordPosition(d, k) ==
    LET rows == d[TableOf(k[1])]
    IN  IF RecordExists(d, k)
        THEN CHOOSE i \in 1..Len(rows) : rows[i].id = k[2]
        ELSE Len(rows) + CHOOSE i \in EvidenceRowsNaming(d, k[2]) :
                            \A j \in EvidenceRowsNaming(d, k[2]) : i <= j

\* Node a is created before node b: its kind comes first, or the kinds are
\* the same and its record comes first.
CreatedBefore(d, a, b) ==
    \/ KindIndex(a[1]) < KindIndex(b[1])
    \/ KindIndex(a[1]) = KindIndex(b[1]) /\ RecordPosition(d, a) < RecordPosition(d, b)

\* A command has printed a degree ranking.
RankingShown ==
    \/ Done("connections") /\ out.msg = "Most Connected Nodes"
    \/ Done("inspect") /\ out.msg = "Network Overview"

NodesOfKind(kind) == {n \in NodeSet(G) : NodeType(G, n, "") = kind}

\* C12: when connections is given a kind filter, the listing holds every node
\* of that kind up to the top-K limit, the nodes of degree 0 included; nodes
\* of degree 0 are left out of the unfiltered most-connected view only.
C12_FilteredListingKeepsIsolated ==
    (Done("connections") /\ out.msg = "Most Connected Nodes" /\ args.node_type # "") =>
        /\ Len(out.rows) = Min(ConnectionsLimit, Cardinality(NodesOfKind(args.node_type)))
        /\ \A i \in 1..Len(out.rows) : out.rows[i].node \in NodesOfKind(args.node_type)
        /\ (Cardinality(NodesOfKind(args.node_type)) <= ConnectionsLimit) =>
              {out.rows[i].node : i \in 1..Len(out.rows)} = NodesOfKind(args.node_type)

\* The link rows of the record source that write the pair e of entity nodes.
RelationshipWrites(d, e) ==
    {i \in 1..Len(d.relationships) :
        {Key("entity", d.relationships[i].entity_a_id),
         Key("entity", d.relationships[i].entity_b_id)} = e}

AliasWrites(d, e) ==
    {i \in 1..Len(d.entities) :
        /\ d.entities[i].canonical_id # NULL
        /\ {Key("entity", d.entities[i].id),
            Key("entity", d.entities[i].canonical_id)} = e}

\* The kind of the last link row, in build order, that writes the pair e.
LastWrittenKind(d, e) ==
    LET prefixes == {n[1] : n \in e}
    IN  IF prefixes = {"entity"}
        THEN IF AliasWrites(d, e) # {} THEN "alias" ELSE "relationship"
        ELSE IF "hypothesis" \in prefixes THEN "ach_score"
        ELSE "sourced_from"

\* C13: the built graph stores at most one edge per unordered pair of nodes
\* (each neighbour is listed once, from both ends, and the edge count is the
\* number of joined pairs); when several link rows write the same pair, the
\* stored edge has the kind of the last write in build order, relationships
\* before aliases.
C13_OneEdgePerPairLastKind ==
    pc = "done" =>
        /\ \A u \in NodeSet(G) :
              /\ \A i, j \in 1..Len(G.adj[u]) : G.adj[u][i] = G.adj[u][j] => i = j
              /\ \A v \in NodeSet(G) : Contains(G.adj[u], v) <=> ({u, v} \in EdgeSet(G))
        /\ NumberOfEdges(G)
              = Cardinality({{u, v} : u, v \in NodeSet(G)} \cap EdgeSet(G))
        /\ \A e \in EdgeSet(G) :
              Get(G.eattr[e], "edge_type", "unknown") = LastWrittenKind(db, e)

\* C13's case: a pair of entities written by a relationship row and by an
\* alias link, stored as one edge.
C13_Witness ==
    /\ pc = "done"
    /\ \E e \in EdgeSet(G) :
          /\ Cardinality(e) = 2
          /\ RelationshipWrites(db, e) # {}
          /\ AliasWrites(db, e) # {}
          /\ G.eattr[e]["edge_type"] = "alias"

\* The attributes a link row of each kind writes.
AttributesOfKind(kind) ==
    CASE kind = "relationship" -> {"edge_type", "relationship_type", "strength", "confirmed"}
      [] kind = "alias"        -> {"edge_type"}
      [] kind = "sourced_from" -> {"edge_type"}
      [] kind = "ach_score"    -> {"edge_type", "consistency", "diagnostic_weight"}

\* C14: when a second edge is written between a pair of nodes that already
\* has an edge, the stored edge carries exactly the attributes of the last
\* write and none of the earlier edge's (an alias written over a relationship
\* has no relationship_type, strength or confirmed), so connections shows the
\* kind and the details of the same link.
C14_LastWriteReplacesAttributes ==
    /\ pc = "done" =>
          \A e \in EdgeSet(G) :
              DOMAIN G.eattr[e] = AttributesOfKind(LastWrittenKind(db, e))
    /\ (Done("connections") /\ out.msg = "Connections") =>
          \A i \in 1..Len(out.rows) :
              (out.rows[i].edge_type = "alias") => (out.rows[i].details = <<>>)

\* A self-loop of the built graph: an edge whose two ends are one node.
SelfLoops(g) == {e \in EdgeSet(g) : Cardinality(e) = 1}

\* C15: the built graph is simple: no edge joins a node to itself, for any
\* record set, so the degree of a node is the number of its distinct
\* neighbours.
C15_NoSelfLoops ==
    pc = "done" =>
        /\ SelfLoops(G) = {}
        /\ \A n \in NodeSet(G) :
              Degree(G, n) = Cardinality({m \in NodeSet(G) \ {n} : {n, m} \in EdgeSet(G)})

\* The sizes of the components of the built graph, largest first.
ComponentSizes(g) ==
    LET cs == ComponentsOf(NodeSet(g), EdgeSet(g))
    IN  [k \in 1..Cardinality(NodeSet(g)) |-> Cardinality({c \in cs : Cardinality(c) = k})]

Pair(a, b) == {a, b}

\* The 6-node main component of the end-to-end scenario and its edges.
MainComponent == Closure(NodeSet(G), EdgeSet(G), {Key("source", 1)})

MainEdges == {e \in EdgeSet(G) : e \subseteq MainComponent}

\* C17: for the end-to-end record set the 6-node main component is a tree:
\* bridges reports every edge of that component as a bridge, and reports
\* source:1 as an articulation point.
C17_MainComponentIsTree ==
    (Done("bridges") /\ db = case_with_data) =>
        /\ Cardinality(MainComponent) = 6
        /\ Cardinality(MainEdges) = Cardinality(MainComponent) - 1
        /\ MainEdges \subseteq ReportedBridges
        /\ Key("source", 1) \in Range(out.art_points)

\* C17 as amended: the main component has 6 nodes and 6 edges, with the cycle
\* entity:1 - entity:2 - source:1; bridges reports as bridges exactly the
\* three edges of the component that are not on the cycle (and entity:3 -
\* source:2 outside it), and reports source:1 and evidence:1 as the
\* articulation points.
C17_MainComponentHasCycle ==
    (Done("bridges") /\ db = case_with_data) =>
        /\ Cardinality(MainComponent) = 6
        /\ Cardinality(MainEdges) = 6
        /\ ReportedBridges \cap MainEdges =
              {Pair(Key("evidence", 1), Key("source", 1)),
               Pair(Key("event", 1), Key("source", 1)),
               Pair(Key("hypothesis", 1), Key("evidence", 1))}
        /\ ReportedBridges \ MainEdges = {Pair(Key("entity", 3), Key("source", 2))}
        /\ {Pair(Key("entity", 1), Key("entity", 2)),
            Pair(Key("entity", 1), Key("source", 1)),
            Pair(Key("entity", 2), Key("source", 1))} \subseteq MainEdges \ ReportedBridges
        /\ Range(out.art_points) = {Key("source", 1), Key("evidence", 1)}

\* C17's case: bridges has analysed the scenario and reported source:1.
C17_Witness ==
    /\ Done("bridges") /\ db = case_with_data
    /\ out.msg = "analysis"
    /\ Key("source", 1) \in Range(out.art_points)
    /\ Len(out.bridge_edges) = 4

InEdgePhase == pc \in {"building", "done"} /\ args.phase \notin NodePhases

\* C19: in every run of _build_graph no edge is added before the node phase
\* (entities, evidence, events, hypotheses, suspect pools, sources) is
\* complete, and no node is added after the edge phase has started: during
\* the node phase the graph has no edge, and from the first link row on its
\* nodes are the nodes of the records.
C19_NodePhaseThenEdgePhase ==
    /\ (pc = "building" /\ args.phase \in NodePhases) => EdgeSet(G) = {}
    /\ InEdgePhase => NodeSet(G) = RecordKeys(db)

\* The records whose node the builder can construct.
WellFormedKeys(d) ==
    RecordKeys(d)
    \ ({Key("event", d.events[i].id) : i \in {j \in 1..Len(d.events) :
                                            d.events[j].description = None}}
       \cup {Key("hypothesis", d.hypotheses[i].id) :
                i \in {j \in 1..Len(d.hypotheses) : d.hypotheses[j].description = None}})

\* C20: _build_graph is total: for every record set it returns a graph; a
\* record that lacks a field needed to construct its node (an event or a
\* hypothesis with a null description) is skipped and every other record is
\* projected.
C20_BuildIsTotal ==
    /\ pc # "raised"
    /\ Done("_build_graph") => WellFormedKeys(db) \subseteq NodeSet(G)

\* C21: clusters reports the components in non-increasing order of size; it
\* reports the single-component message, and no cluster list, if and only if
\* the non-empty graph has exactly one connected component; with two or more
\* components it reports their number and lists every one.
C21_ClustersOrderAndSingle ==
    (Done("clusters") /\ NodeSet(G) # {}) =>
        LET n == ComponentCount(NodeSet(G), EdgeSet(G))
        IN  /\ out.msg \in {"single component", "separate clusters"}
            /\ (out.msg = "single component") <=> (n = 1)
            /\ (out.msg = "single component") => ("clusters" \notin DOMAIN out)
            /\ (out.msg = "separate clusters") =>
                  /\ n >= 2
                  /\ out.found = n
                  /\ Len(out.clusters) = n
                  /\ {out.clusters[i].nodes : i \in 1..Len(out.clusters)}
                        = ComponentsOf(NodeSet(G), EdgeSet(G))
                  /\ \A i \in 1..(Len(out.clusters) - 1) :
                        out.clusters[i].size >= out.clusters[i + 1].size

\* C21's case: clusters lists components of different sizes, the largest of
\* which is not the first the search finds.
C21_Witness ==
    /\ Done("clusters") /\ out.msg = "separate clusters"
    /\ out.clusters[1].size > out.clusters[Len(out.clusters)].size
    /\ G.order[1] \notin out.clusters[1].nodes

\* The fixed presentation table: the color and the shape of each node kind
\* and the color of each edge kind.
KindColor(kind) ==
    CASE kind = "entity" -> "#3498db" [] kind = "evidence" -> "#e74c3c"
      [] kind = "event" -> "#2ecc71" [] kind = "hypothesis" -> "#f39c12"
      [] kind = "suspect_pool" -> "#9b59b6" [] kind = "source" -> "#95a5a6"

KindShape(kind) ==
    CASE kind = "entity" -> "dot" [] kind = "evidence" -> "triangle"
      [] kind = "event" -> "square" [] kind = "hypothesis" -> "diamond"
      [] kind = "suspect_pool" -> "star" [] kind = "source" -> "database"

EdgeKindColor(kind) ==
    CASE kind = "relationship" -> "#3498db" [] kind = "alias" -> "#95a5a6"
      [] kind = "sourced_from" -> "#2ecc71" [] kind = "ach_score" -> "#f39c12"

Exported == Done("visualize") /\ out.msg = "Saved interactive graph"

\* C22: in the exported presentation graph every node of one of the six kinds
\* has the color and the shape of the fixed table, and every edge has the
\* color of its kind, is dashed if and only if its kind is alias, and has
\* width 2 if its kind is relationship or ach_score and width 1 otherwise.
C22_PresentationTable ==
    Exported =>
        /\ Len(out.nodes) = Cardinality(NodeSet(G))
        /\ {out.nodes[i].key : i \in 1..Len(out.nodes)} = NodeSet(G)
        /\ \A i \in 1..Len(out.nodes) :
              LET kind == NodeType(G, out.nodes[i].key, "unknown")
              IN  kind \in NodeKinds =>
                      /\ out.nodes[i].color = KindColor(kind)
                      /\ out.nodes[i].shape = KindShape(kind)
        /\ Len(out.edges) = Cardinality(EdgeSet(G))
        /\ {{out.edges[i].a, out.edges[i].b} : i \in 1..Len(out.edges)} = EdgeSet(G)
        /\ \A i \in 1..Len(out.edges) :
              LET kind == G.eattr[{out.edges[i].a, out.edges[i].b}]["edge_type"]
              IN  /\ out.edges[i].color = EdgeKindColor(kind)
                  /\ out.edges[i].dashes <=> (kind = "alias")
                  /\ out.edges[i].width
                        = (IF kind \in {"relationship", "ach_score"} THEN 2 ELSE 1)

\* C22's case: an export with a dashed alias edge and a node that is not an
\* entity.
C22_Witness ==
    /\ Exported
    /\ \E i \in 1..Len(out.edges) : out.edges[i].dashes /\ out.edges[i].width = 1
    /\ \E i \in 1..Len(out.nodes) : out.nodes[i].shape \in {"star", "database", "square"}


(* --------------------------- _truncate alone --------------------------- *)
(* _truncate as a function of its two arguments: a call leaves the text    *)
(* and the budget in args and the returned string in out.                  *)

\* Longest text passed to _truncate.
MaxTextLen == 62
\* Largest budget passed to _truncate (the call sites use 30, 40 and 60).
MaxBudget == 61
\* Longest text over the two-letter alphabet.
MaxShortLen == 3

\* The text of k characters "abcabc...".
Cyclic(k) == [i \in 1..k |-> <<"a", "b", "c">>[(i % 3) + 1]]

\* All texts of at most k characters over the letters "x" and ".".
RECURSIVE ShortTexts(_)
ShortTexts(k) ==
    IF k = 0 THEN {<<>>}
    ELSE ShortTexts(k - 1)
         \cup {Append(t, c) : t \in {s \in ShortTexts(k - 1) : Len(s) = k - 1},
                              c \in {"x", "."}}

Texts == {Cyclic(k) : k \in 0..MaxTextLen} \cup ShortTexts(MaxShortLen)

Budgets == 0..MaxBudget

\* result = _truncate(text, length)
truncate ==
    /\ pc = "idle"
    /\ \E text \in Texts, length \in Budgets :
          /\ args' = [text |-> text, length |-> length]
          /\ out' = [cmd |-> "_truncate", result |-> Truncate(text, length)]
    /\ pc' = "done"
    /\ UNCHANGED <<db, G>>

TruncateNext == truncate \/ Exit

TruncateSpec == Init /\ [][TruncateNext]_vars

\* C23: a label of at most n characters is returned unchanged; a label of more
\* than n characters is replaced by its first n characters followed by the
\* ellipsis marker "..." (n is 60 for event and hypothesis labels at build
\* time and 30 for on-graph labels).
C23_TruncateToBudget ==
    Done("_truncate") =>
        LET text == args.text
            n == args.length
            result == out.result
        IN  /\ Len(text) <= n => result = text
            /\ Len(text) > n =>
                  /\ Len(result) = n + 3
                  /\ \A i \in 1..n : result[i] = text[i]
                  /\ \A i \in (n + 1)..(n + 3) : result[i] = "."

\* C23's case: a 61-character label cut at the build-time budget of 60.
C23_Witness ==
    /\ Done("_truncate")
    /\ args.length = DefaultLength
    /\ Len(args.text) = DefaultLength + 1
    /\ Len(out.result) = DefaultLength + 3
    /\ out.result[DefaultLength] = args.text[DefaultLength]


\* C28: for every text and every budget n >= 0, _truncate(text, n) returns a
\* string that is no longer than text itself.
C28_NeverLonger ==
    Done("_truncate") => Len(out.result) <= Len(args.text)

\* The extent of the lengthening: the result is longer than the text exactly
\* when the text exceeds the budget by one or two characters, and then by at
\* most two characters.
LongerOnlyJustOverBudget ==
    Done("_truncate") =>
        /\ (Len(out.result) > Len(args.text))
              <=> (args.length < Len(args.text) /\ Len(args.text) < args.length + 3)
        /\ Len(out.result) <= Len(args.text) + 2


MaxWrites == 1

Tables ==
    {"entities", "evidence_items", "events", "hypotheses", "suspect_pools",
     "sources", "relationships", "hypothesis_evidence_scores"}

\* The rows the other actor may append to a table of d.
NewRows(d, table) ==
    LET id == Len(d[table]) + 1
    IN  CASE table = "entities" ->
              IF id > MaxEntities THEN {}
              ELSE {[id |-> id, name |-> <<"E">> \o IdStr(id),
                     source_id |-> src, canonical_id |-> canon] :
                        src \in SourceRefs, canon \in {NULL} \cup EntityRefs}
          [] table = "evidence_items" ->
              IF id > MaxOther THEN {}
              ELSE {[id |-> id, name |-> <<"K">> \o IdStr(id), source_id |-> src] :
                        src \in SourceRefs}
          [] table = "events" ->
              IF id > MaxOther THEN {}
              ELSE {[id |-> id, description |-> <<"C">> \o IdStr(id),
                     source_id |-> src] : src \in SourceRefs}
          [] table = "hypotheses" ->
              IF id > MaxOther THEN {}
              ELSE {[id |-> id, description |-> <<"H">> \o IdStr(id)]}
          [] table = "suspect_pools" ->
              IF id > MaxOther THEN {}
              ELSE {[id |-> id, category |-> <<"P">> \o IdStr(id)]}
          [] table = "sources" ->
              IF id > MaxOther THEN {}
              ELSE {[id |-> id, source_type |-> <<"o">>]}
          [] table = "relationships" ->
              IF id > MaxOther THEN {}
              ELSE {[id |-> id, entity_a_id |-> a, entity_b_id |-> b,
                     relationship_type |-> "known_associate",
                     strength |-> "0.7", confirmed |-> FALSE] :
                        a \in EntityRefs, b \in EntityRefs}
          [] table = "hypothesis_evidence_scores" ->
              IF id > MaxOther THEN {}
              ELSE {[hypothesis_id |-> h, evidence_id |-> e,
                     consistency |-> "C", diagnostic_weight |-> "H"] :
                        h \in 1..MaxOther, e \in 1..MaxOther}

\* G = nx.Graph(), before the first fetchall
StartReads ==
    /\ pc = "idle"
    /\ pc' = "reading"
    /\ G' = EmptyGraph
    /\ args' = [phase |-> 1, reads |-> <<>>, writes |-> 0]
    /\ out' = [cmd |-> "_build_graph"]
    /\ UNCHANGED db

\* A loop that iterates over the table as it was when the build began.
ReadPhaseOfSnapshot ==
    /\ pc = "reading"
    /\ args.phase <= Len(BuildPhases)
    /\ G' = RunPhase(IF args.reads = <<>> THEN db ELSE args.reads[1], G, args.phase)
    /\ args' = [args EXCEPT !.phase = @ + 1, !.reads = Append(@, db)]
    /\ UNCHANGED <<db, pc, out>>

\* for row in db.fetchall(...): one read of the table as it is now, and the
\* loop over the rows read.
ReadPhase ==
    /\ pc = "reading"
    /\ args.phase <= Len(BuildPhases)
    /\ G' = RunPhase(db, G, args.phase)
    /\ args' = [args EXCEPT !.phase = @ + 1, !.reads = Append(@, db)]
    /\ UNCHANGED <<db, pc, out>>

\* The other actor commits an INSERT between two reads of the build.
WriterInsert ==
    /\ pc = "reading"
    /\ args.writes < MaxWrites
    /\ RowCount(db) < MaxRows
    /\ \E table \in Tables : \E row \in NewRows(db, table) :
          db' = [db EXCEPT ![table] = Append(@, row)]
    /\ args' = [args EXCEPT !.writes = @ + 1]
    /\ UNCHANGED <<pc, G, out>>

\* The other actor commits a DELETE of the newest row of a table.
WriterDelete ==
    /\ pc = "reading"
    /\ args.writes < MaxWrites
    /\ \E table \in Tables :
          /\ Len(db[table]) > 0
          /\ db' = [db EXCEPT ![table] = SubSeq(@, 1, Len(@) - 1)]
    /\ args' = [args EXCEPT !.writes = @ + 1]
    /\ UNCHANGED <<pc, G, out>>

\* return G
ReadsReturn ==
    /\ pc = "reading"
    /\ args.phase > Len(BuildPhases)
    /\ pc' = "done"
    /\ UNCHANGED <<db, G, args, out>>

ConcurrentNext ==
    \/ InsertEntity \/ InsertEvidence \/ InsertEvent \/ InsertHypothesis
    \/ InsertSuspectPool \/ InsertSource \/ InsertRelationship \/ InsertScore
    \/ StartReads \/ ReadPhase \/ WriterInsert \/ WriterDelete \/ ReadsReturn
    \/ Exit

ConcurrentSpec == Init /\ [][ConcurrentNext]_vars

RECURSIVE GraphOfReads(_, _, _)
\* The graph that the loops p.. build when each reads the state reads[p].
GraphOfReads(reads, g, p) ==
    IF p > Len(reads) THEN g
    ELSE GraphOfReads(reads, RunPhase(reads[p], g, p), p + 1)

\* The states the record source was in during the build.
StatesDuringBuild == Range(args.reads) \cup {db}

\* C25: the build takes one plain read per table with no snapshot between
\* them: the graph it returns is made of the twelve reads, each of the state
\* the record source had at that read, and it is the graph of the record
\* source whenever no write fell between the first and the last read, so
\* that a write between two reads can make it the graph of no single state.
C25_BuildIsTwelvePlainReads ==
    Done("_build_graph") =>
        /\ Len(args.reads) = Len(BuildPhases)
        /\ G = GraphOfReads(args.reads, EmptyGraph, 1)
        /\ (\A p \in 1..Len(args.reads) : args.reads[p] = args.reads[1])
              => G = BuildGraph(args.reads[1])

\* C25's case: a build beside one write has returned a graph that is the
\* graph of none of the states the record source was in.
C25_Witness ==
    /\ Done("_build_graph")
    /\ args.writes = 1
    /\ \A d \in StatesDuringBuild : G # BuildGraph(d)
    /\ \A d \in StatesDuringBuild :
          NodeSet(G) # NodeSet(BuildGraph(d)) \/ EdgeSet(G) # EdgeSet(BuildGraph(d))


(* --------------------- a command and its database ----------------------- *)
(* Every command is                                                        *)
(*     db = _open_case_db(case)                                            *)
(*     try: G = _build_graph(db); ...report...                             *)
(*     finally: db.close()                                                 *)
(* args.opens and args.closes count the calls of db.open() and db.close()  *)
(* of the running command; args.case_exists says whether the case          *)
(* directory exists.                                                       *)

Commands ==
    {"summary", "connections", "clusters", "bridges", "paths", "visualize",
     "inspect"}

\* The options a command may be given.
OptionsOf(cmd) ==
    CASE cmd = "connections" ->
            {[node |-> node, node_type |-> node_type] :
                node \in {NONE} \cup QueryKeys, node_type \in TypeArgs}
      [] cmd = "paths" ->
            {[source |-> source, target |-> target] :
                source \in QueryKeys, target \in QueryKeys}
      [] cmd = "visualize" ->
            {[output |-> output, no_open |-> no_open] :
                output \in OutputArgs, no_open \in BOOLEAN}
      [] cmd = "inspect" -> {[focus |-> focus] : focus \in {NONE} \cup QueryKeys}
      [] OTHER -> {NoArgs}

\* What the body of the try block reports for the graph g.
ResultOf(cmd, g, o) ==
    CASE cmd = "summary"     -> SummaryResult(g)
      [] cmd = "connections" -> ConnectionsResult(g, o.node, o.node_type)
      [] cmd = "clusters"    -> ClustersResult(g)
      [] cmd = "bridges"     -> BridgesResult(g)
      [] cmd = "paths"       -> PathsResult(g, o.source, o.target)
      [] cmd = "visualize"   -> VisualizeResult(g, o.output, o.no_open)
      [] cmd = "inspect"     -> InspectResult(g, o.focus)

\* _build_graph raises on a row of the record source.
BuildRaises(d) ==
    \/ \E i \in 1..Len(d.events) : RowRaises("events", d.events[i])
    \/ \E i \in 1..Len(d.hypotheses) : RowRaises("hypotheses", d.hypotheses[i])

\* deeptrace network <cmd> --case <case> ...
Invoke ==
    /\ pc = "idle"
    /\ \E cmd \in Commands, case_exists \in BOOLEAN :
          /\ args' = [cmd |-> cmd, case_exists |-> case_exists,
                      opens |-> 0, closes |-> 0, options |-> NoArgs]
          /\ out' = [cmd |-> cmd]
    /\ pc' = "invoked"
    /\ G' = EmptyGraph
    /\ UNCHANGED db

\* _open_case_db: the case directory is missing.
CaseNotFound ==
    /\ pc = "invoked"
    /\ ~args.case_exists
    /\ out' = [cmd |-> args.cmd, exit |-> 1, msg |-> "Case not found"]
    /\ pc' = "done"
    /\ UNCHANGED <<db, G, args>>

\* _open_case_db: db = CaseDatabase(...); db.open(); return db
OpenCaseDb ==
    /\ pc = "invoked"
    /\ args.case_exists
    /\ args' = [args EXCEPT !.opens = @ + 1]
    /\ pc' = "try"
    /\ UNCHANGED <<db, G, out>>

\* The try block: it ends by falling off its end, by return, by typer.Exit
\* or by an exception of _build_graph; each of them enters the finally block.
TryBody ==
    /\ pc = "try"
    /\ IF BuildRaises(db)
       THEN /\ out' = [cmd |-> args.cmd, exit |-> 1, msg |-> "TypeError"]
            /\ UNCHANGED <<G, args>>
       ELSE LET g == BuildGraph(db)
            IN  \E o \in OptionsOf(args.cmd) :
                   /\ G' = g
                   /\ args' = [args EXCEPT !.options = o]
                   /\ out' = ResultOf(args.cmd, g, o)
    /\ pc' = "finally"
    /\ UNCHANGED db

\* A finally block that is skipped when the try block did not end normally.
FinallyOnSuccess ==
    /\ pc = "finally"
    /\ args' = [args EXCEPT !.closes = IF out.exit = 0 THEN @ + 1 ELSE @]
    /\ pc' = "done"
    /\ UNCHANGED <<db, G, out>>

\* finally: db.close()
Finally ==
    /\ pc = "finally"
    /\ args' = [args EXCEPT !.closes = @ + 1]
    /\ pc' = "done"
    /\ UNCHANGED <<db, G, out>>

SessionNext ==
    \/ InsertEntity \/ InsertEvidence \/ InsertEvent \/ InsertHypothesis
    \/ InsertSuspectPool \/ InsertSource \/ InsertRelationship \/ InsertScore
    \/ InsertEventNoDescription \/ InsertHypothesisNoDescription
    \/ Invoke \/ CaseNotFound \/ OpenCaseDb \/ TryBody \/ Finally
    \/ Exit

SessionSpec == Init /\ [][SessionNext]_vars

\* A command is running or has just ended.
InCommand == pc \in {"invoked", "try", "finally", "done"}

\* C26: in every command the database, once opened, is closed exactly once
\* before the command ends, on every exit path (normal end, early return,
\* failure exit, exception); when the case directory does not exist the
\* command exits with code 1 without opening any database.
C26_OpenedIsClosedOnce ==
    InCommand =>
        /\ args.closes <= args.opens /\ args.opens <= 1
        /\ pc = "invoked" => args.opens = 0
        /\ pc = "try" => (args.opens = 1 /\ args.closes = 0)
        /\ pc = "finally" => (args.opens = 1 /\ args.closes = 0)
        /\ pc = "done" =>
              /\ args.closes = args.opens
              /\ args.opens = (IF args.case_exists THEN 1 ELSE 0)
              /\ ~args.case_exists => out.exit = 1

\* C26's case: a command that left its try block through a failure has
\* ended with its database closed.
C26_Witness ==
    /\ pc = "done"
    /\ InCommand
    /\ args.case_exists
    /\ out.exit = 1
    /\ out.msg \in {"NotFound", "TypeError"}
    /\ args.opens = 1 /\ args.closes = 1


(* ------------------------ rankings of a large case ---------------------- *)
(* The most-connected views cut their ranking at 20 and at 10 rows.  A     *)
(* case with more entities than that is stored in one step: the first      *)
(* entities are isolated, the entities from `first` on are each an alias   *)
(* of their predecessor, and with `hub` they also share one source.        *)

\* Number of entities of a large case.
MaxCaseEntities == 23

LargeCase(n, first, hub) ==
    [EmptyDb EXCEPT
        !.entities = [i \in 1..n |->
            [id |-> i, name |-> <<"E">> \o IdStr(i),
             source_id |-> IF hub /\ i >= first THEN 1 ELSE NULL,
             canonical_id |-> IF i >= first THEN i - 1 ELSE NULL]],
        !.sources = IF hub THEN <<[id |-> 1, source_type |-> <<"o">>]>> ELSE <<>>]

\* The record source is filled with a large case.
ImportCase ==
    /\ pc = "idle"
    /\ \E n \in 0..MaxCaseEntities, hub \in BOOLEAN : \E first \in 2..(n + 1) :
          db' = LargeCase(n, first, hub)
    /\ UNCHANGED <<pc, G, args, out>>

\* connections without --node
mostConnected ==
    LET g == BuildGraph(db)
    IN  \E node_type \in TypeArgs :
            Run(g, [node |-> NONE, node_type |-> node_type],
                ConnectionsResult(g, NONE, node_type))

\* inspect without --focus
overview ==
    LET g == BuildGraph(db)
    IN  Run(g, [focus |-> NONE], InspectResult(g, NONE))

RankingNext == ImportCase \/ mostConnected \/ overview \/ Exit

RankingSpec == Init /\ [][RankingNext]_vars

\* The candidates of a ranking: every node, or the nodes of the --type kind.
Candidates(node_type) ==
    IF node_type = "" THEN G.order
    ELSE SelectSeq(G.order, LAMBDA n : NodeType(G, n, "unknown") = node_type)

\* The ranking without its entries of degree 0, cut at `limit` entries.
DropThenCut(ranked, limit) ==
    LET positive == SelectSeq(ranked, LAMBDA n : TrueDegree(n) > 0)
    IN  SubSeq(positive, 1, Min(limit, Len(positive)))

\* C27: in connections without --node, cutting the ranking to its first 20
\* entries and then skipping the entries of degree 0 shows exactly the first
\* min(20, k) entries of the ranking, k being the number of candidates of
\* positive degree: the selection of the inspect overview, which drops the
\* degree-0 entries before it cuts, with the limit 20 in place of 10.
C27_CutThenSkipIsDropThenCut ==
    /\ (Done("connections") /\ out.msg = "Most Connected Nodes") =>
          LET cands == Candidates(args.node_type)
              k == Cardinality({n \in Range(cands) : TrueDegree(n) > 0})
              shown == DropThenCut(RankByDegree(G, cands), 20)
          IN  /\ Len(out.rows) = Min(20, k)
              /\ Len(shown) = Len(out.rows)
              /\ \A i \in 1..Len(shown) : out.rows[i].node = shown[i]
    /\ (Done("inspect") /\ out.msg = "Network Overview") =>
          LET shown == DropThenCut(RankByDegree(G, G.order), 10)
          IN  /\ Len(shown) = Len(out.rows)
              /\ \A i \in 1..Len(shown) : out.rows[i].node = shown[i]

\* C27's case: a ranking of more than 20 candidates of positive degree and
\* some of degree 0, of which 20 are shown.
C27_Witness ==
    /\ Done("connections") /\ out.msg = "Most Connected Nodes"
    /\ Len(out.rows) = 20
    /\ Cardinality({n \in Range(Candidates(args.node_type)) : TrueDegree(n) > 0}) > 20
    /\ \E n \in Range(Candidates(args.node_type)) : TrueDegree(n) = 0


\* The kinds of the two ends of an edge (one kind twice for a self-loop),
\* as the set of the node_type attributes, "unknown" for a node without one.
EndKinds(e) == {NodeType(G, n, "unknown") : n \in e}

\* The key prefixes of the two ends of an edge.
EndPrefixes(e) == {n[1] : n \in e}

\* C29: in every built graph the kind of an edge fixes the kinds of its
\* endpoints: relationship and alias edges join two entity nodes, sourced_from
\* edges join one source node with one evidence, event or entity node, and
\* ach_score edges join one hypothesis node with one evidence node; so only
\* relationship and alias writes can land on the same pair of nodes.
C29_EdgeKindFixesEndpointKinds ==
    pc = "done" =>
        \A e \in EdgeSet(G) :
            LET kind == Get(G.eattr[e], "edge_type", "unknown")
            IN  /\ kind \in {"relationship", "alias"} => EndKinds(e) = {"entity"}
                /\ kind = "sourced_from" =>
                      \E k \in {"evidence", "event", "entity"} : EndKinds(e) = {"source", k}
                /\ kind = "ach_score" => EndKinds(e) = {"hypothesis", "evidence"}
                /\ kind \in {"relationship", "alias", "sourced_from", "ach_score"}

\* What holds of the keys: the kind of an edge fixes the key prefixes of its
\* ends, so writes of different kinds share a pair only for relationship and
\* alias.
EdgeKindFixesEndpointKeys ==
    pc = "done" =>
        \A e \in EdgeSet(G) :
            LET kind == Get(G.eattr[e], "edge_type", "unknown")
            IN  /\ kind \in {"relationship", "alias"} => EndPrefixes(e) = {"entity"}
                /\ kind = "sourced_from" =>
                      \E k \in {"evidence", "event", "entity"} : EndPrefixes(e) = {"source", k}
                /\ kind = "ach_score" => EndPrefixes(e) = {"hypothesis", "evidence"}
                /\ kind \in {"relationship", "alias", "sourced_from", "ach_score"}


=============================================================================
